---- MODULE Spec2Model ----
(***************************************************************************)
(* Backtest core of wealth-ops: the trap-order execution simulator          *)
(* (ExecutionSimulator), the per-bar state machine of BacktestEngine.run    *)
(* and the trade/result types it fills in.                                  *)
(*                                                                          *)
(* Numbers.  The program computes in floating point; the model computes the *)
(* same expressions exactly.                                                *)
(*   - A row carries whole numbers (open, high, low, close, atr_14,         *)
(*     adx_14).                                                             *)
(*   - A price level (buy stop, limit, fill, stop-loss, take-profit,        *)
(*     highest high, entry and exit price) is a whole number of 1/PX price  *)
(*     units.  PX = 300 makes 0.02 x ATR, 0.05 x ATR and (adx / 30) x ATR   *)
(*     whole, so no level is ever rounded.                                  *)
(*   - An amount of money or a position size is a rational <<n, d>> in      *)
(*     lowest terms with d > 0.                                             *)
(* An Optional[float] is a sequence of length 0 (None) or 1 (Some(v)); None  *)
(* and 0.0 are falsy.                                                       *)
(***************************************************************************)
EXTENDS Integers, Sequences, FiniteSets, TLC

None == <<>>

Some(v) == <<v>>

\* ------------------------------------------------------------------------
\* Exact arithmetic (stands for Python float arithmetic)
\* ------------------------------------------------------------------------
Abs(x) == IF x < 0 THEN -x ELSE x

Max(a, b) == IF a < b THEN b ELSE a

Min(a, b) == IF b < a THEN b ELSE a

RECURSIVE Gcd(_, _)
Gcd(a, b) == IF b = 0 THEN a ELSE Gcd(b, a % b)

Rat(n, d) ==
    LET g == Gcd(Abs(n), Abs(d))
        s == IF d < 0 THEN -1 ELSE 1
    IN  <<(s * n) \div g, (s * d) \div g>>

R(k) == <<k, 1>>

RAdd(a, b) ==
    LET g == Gcd(a[2], b[2])
        l == (a[2] \div g) * b[2]
    IN  Rat(a[1] * (l \div a[2]) + b[1] * (l \div b[2]), l)

RNeg(a) == <<-a[1], a[2]>>

RSub(a, b) == RAdd(a, RNeg(b))

RMul(a, b) ==
    LET g1 == Gcd(Abs(a[1]), b[2])
        g2 == Gcd(Abs(b[1]), a[2])
    IN  Rat((a[1] \div g1) * (b[1] \div g2), (a[2] \div g2) * (b[2] \div g1))

\* a / b for b # 0
RDiv(a, b) == RMul(a, Rat(b[2], b[1]))

RLt(a, b) ==
    LET g == Gcd(a[2], b[2])
    IN  a[1] * (b[2] \div g) < b[1] * (a[2] \div g)

RLe(a, b) == ~RLt(b, a)

\* Python's max(a, b) and min(a, b) on two floats
RMax(a, b) == IF RLt(a, b) THEN b ELSE a

RMin(a, b) == IF RLt(b, a) THEN b ELSE a

\* Python's int(x): truncation toward zero
RInt(a) == IF a[1] >= 0 THEN a[1] \div a[2] ELSE -((-a[1]) \div a[2])

\* price units per 1.0 of price
PX == 3 * 100

\* a row's number as a price level
Px(x) == PX * x

\* a price level (or a difference of two) as an amount of money per unit held
Money(level) == Rat(level, PX)

\* Python truthiness of an Optional[float] price level
Truthy(x) == x # None /\ x[1] # 0

\* ------------------------------------------------------------------------
\* ExecutionSimulator
\* ------------------------------------------------------------------------
EQUITY == "EQUITY"
COMMODITY == "COMMODITY"
INDEX == "INDEX"

\* overnight funding charged to every asset class
funding_rate_daily_All(ac) == Rat(8, 100000)

\* ExecutionSimulator.__init__
commission_per_share(ac) == IF ac = EQUITY THEN Rat(5, 1000) ELSE R(0)

min_commission(ac) == IF ac = EQUITY THEN R(1) ELSE R(0)

funding_rate_daily(ac) == IF ac = COMMODITY THEN Rat(8, 100000) ELSE R(0)

\* ExecutionSimulator.calculate_trap_levels: <<buy_stop, limit_price>>
\*   buy_stop = high + 0.02 * atr;  limit_price = buy_stop + 0.05 * atr
calculate_trap_levels(row) ==
    LET buy_stop == Px(row.high) + (2 * Px(row.atr_14)) \div 100
        limit_price == buy_stop + (5 * Px(row.atr_14)) \div 100
    IN  <<Some(buy_stop), Some(limit_price)>>

\* a fill at the stop whenever the high reaches it: no gap-through policy
check_entry_FillAtStop(current_row, buy_stop, limit_price) ==
    IF Px(current_row.high) < buy_stop THEN None ELSE Some(buy_stop)

\* a fill without the trigger: the high need not reach the buy stop
check_entry_Untriggered(current_row, buy_stop, limit_price) ==
    LET open_price == Px(current_row.open)
        fill_price == Max(open_price, buy_stop)
    IN  IF open_price > limit_price THEN None
        ELSE IF fill_price > limit_price THEN None
        ELSE Some(fill_price)

\* ExecutionSimulator.check_entry: the fill price, or None
check_entry(current_row, buy_stop, limit_price) ==
    LET open_price == Px(current_row.open)
        high_price == Px(current_row.high)
        fill_price == Max(open_price, buy_stop)
    IN  IF open_price > limit_price THEN None
        ELSE IF high_price < buy_stop THEN None
        ELSE IF fill_price > limit_price THEN None
        ELSE Some(fill_price)

STOP_LOSS == "STOP_LOSS"
TAKE_PROFIT == "TAKE_PROFIT"
TIME_STOP == "TIME_STOP"

\* ------------------------------------------------------------------------
\* types.py: Trade
\* ------------------------------------------------------------------------
\* the None of an Optional[Trade]
NoTrade == [status |-> "NONE"]

\* a trade dated by the bar that placed its order, not the bar of its fill
NewTrade_OrderDated(date, fill_price, size, commission, placed_on) ==
    [entry_date |-> placed_on, entry_price |-> fill_price, exit_date |-> None,
     exit_price |-> None, size |-> size, status |-> "OPEN", pnl |-> R(0),
     exit_reason |-> "", commission |-> commission, funding_fees |-> R(0),
     order_date |-> placed_on]

\* Trade(ticker, entry_date, entry_price, size, commission); a date is the
\* index of its bar.  order_date is an observer field: the bar whose signal
\* placed the order that this trade filled.
NewTrade(date, fill_price, size, commission, placed_on) ==
    [entry_date |-> date, entry_price |-> fill_price, exit_date |-> None,
     exit_price |-> None, size |-> size, status |-> "OPEN", pnl |-> R(0),
     exit_reason |-> "", commission |-> commission, funding_fees |-> R(0),
     order_date |-> placed_on]

\* a close that records the exit but leaves the status OPEN
TradeClose_StatusOpen(t, date, price, reason) ==
    LET raw_pnl == RMul(Money(price - t.entry_price), t.size)
        pnl == IF t.entry_price > 0
               THEN RSub(RSub(raw_pnl, t.commission), t.funding_fees)
               ELSE t.pnl
    IN  [t EXCEPT !.exit_date = date, !.exit_price = price,
                  !.exit_reason = reason, !.pnl = pnl]

\* Trade.close for a LONG trade
TradeClose(t, date, price, reason) ==
    LET raw_pnl == RMul(Money(price - t.entry_price), t.size)
        pnl == IF t.entry_price > 0
               THEN RSub(RSub(raw_pnl, t.commission), t.funding_fees)
               ELSE t.pnl
    IN  [t EXCEPT !.exit_date = date, !.exit_price = price,
                  !.exit_reason = reason, !.status = "CLOSED", !.pnl = pnl]

\* ------------------------------------------------------------------------
\* BacktestEngine.run, the pieces of one loop iteration
\* ------------------------------------------------------------------------
\* chandelier_stop = highest_high_since_entry - 2.0 * atr
ChandelierStop(highest_high, atr) == highest_high - 2 * Px(atr)

\* the stop follows the chandelier, down as well as up
UpdateStopLoss_Follow(sl, chandelier_stop) == Some(chandelier_stop)

\* the ratchet: never lower the stop of a long
UpdateStopLoss(sl, chandelier_stop) ==
    IF sl # None THEN Some(Max(sl[1], chandelier_stop))
    ELSE Some(chandelier_stop)

\* an exit always at the level, whatever the open
CheckExits_NoGap(row, sl, tp, days) ==
    IF Px(row.low) < sl
    THEN <<Some(sl), STOP_LOSS>>
    ELSE IF Truthy(tp) /\ Px(row.high) > tp[1]
    THEN <<Some(tp[1]), TAKE_PROFIT>>
    ELSE IF days >= 10
    THEN <<Some(Px(row.close)), TIME_STOP>>
    ELSE <<None, "">>

\* take-profit looked at before the stop-loss
CheckExits_ProfitFirst(row, sl, tp, days) ==
    LET open_px == Px(row.open) IN
    IF Truthy(tp) /\ Px(row.high) > tp[1]
    THEN <<Some(IF open_px > tp[1] THEN Max(open_px, tp[1]) ELSE tp[1]), TAKE_PROFIT>>
    ELSE IF Px(row.low) < sl
    THEN <<Some(IF open_px < sl THEN Min(open_px, sl) ELSE sl), STOP_LOSS>>
    ELSE IF days >= 10
    THEN <<Some(Px(row.close)), TIME_STOP>>
    ELSE <<None, "">>

\* the time stop one day late
CheckExits_Late(row, sl, tp, days) ==
    LET open_px == Px(row.open) IN
    IF Px(row.low) < sl
    THEN <<Some(IF open_px < sl THEN Min(open_px, sl) ELSE sl), STOP_LOSS>>
    ELSE IF Truthy(tp) /\ Px(row.high) > tp[1]
    THEN <<Some(IF open_px > tp[1] THEN Max(open_px, tp[1]) ELSE tp[1]), TAKE_PROFIT>>
    ELSE IF days > 10
    THEN <<Some(Px(row.close)), TIME_STOP>>
    ELSE <<None, "">>

\* "Check Exits": <<exit_price, exit_reason>>, <<None, "">> when no exit fires;
\* sl is the stop-loss just ratcheted, tp the Optional take-profit
CheckExits(row, sl, tp, days) ==
    LET open_px == Px(row.open) IN
    IF Px(row.low) < sl
    THEN <<Some(IF open_px < sl THEN Min(open_px, sl) ELSE sl), STOP_LOSS>>
    ELSE IF Truthy(tp) /\ Px(row.high) > tp[1]
    THEN <<Some(IF open_px > tp[1] THEN Max(open_px, tp[1]) ELSE tp[1]), TAKE_PROFIT>>
    ELSE IF days >= 10
    THEN <<Some(Px(row.close)), TIME_STOP>>
    ELSE <<None, "">>

\* the capital credited with the price move alone, the costs left out
UpdateCapital_Gross(capital, trade) ==
    RAdd(capital, RAdd(trade.pnl, RAdd(trade.commission, trade.funding_fees)))

\* "Update Capital": current_capital += open_trade.pnl
UpdateCapital(capital, trade) == RAdd(capital, trade.pnl)

\* the flat minimum charged whatever the size
Commission_MinOnly(ac, size) == min_commission(ac)

\* commission = max(min_commission, size * commission_per_share), EQUITY only
Commission(ac, size) ==
    IF ac = EQUITY
    THEN RMax(min_commission(ac), RMul(size, commission_per_share(ac)))
    ELSE R(0)

\* the size from the risk budget alone, without the 15% capital cap
PositionSize_RiskOnly(ac, capital, atr, fill_price) ==
    LET size == IF atr > 0
                THEN RDiv(RMul(capital, Rat(2, 100)), Money(2 * Px(atr)))
                ELSE R(0)
    IN  IF ac = EQUITY THEN R(RInt(size)) ELSE size

\* position size on a fill
PositionSize(ac, capital, atr, fill_price) ==
    LET risk_per_share == Money(2 * Px(atr))
        max_risk_amount == RMul(capital, Rat(2, 100))
        size_risk == IF RLt(R(0), risk_per_share)
                     THEN RDiv(max_risk_amount, risk_per_share) ELSE R(0)
        max_capital_alloc == RMul(capital, Rat(15, 100))
        size_cap == IF fill_price > 0
                    THEN RDiv(max_capital_alloc, Money(fill_price)) ELSE R(0)
        size == RMin(size_risk, size_cap)
    IN  IF ac = EQUITY THEN R(RInt(size)) ELSE size

\* take_profit = fill_price + clamp(2 + adx / 30, 2.5, 4.5) * atr; the
\* multiple is carried in thirtieths
TakeProfit(fill_price, atr, adx) ==
    LET tp_multiple30 == Max(75, Min(135, 60 + adx))
    IN  fill_price + (tp_multiple30 * Px(atr)) \div 30

\* an order from every signal, whether or not a position is open
GenerateSignal_Always(row, sig_col, ot, pbs, pl) ==
    IF sig_col /\ row.composite_signal = 1 /\ row.adx_14 > 20
    THEN calculate_trap_levels(row)
    ELSE <<pbs, pl>>

\* the signal read as if the column were always there
GenerateSignal_NoColumnTest(row, sig_col, ot, pbs, pl) ==
    IF ot = NoTrade /\ row.composite_signal = 1 /\ row.adx_14 > 20
    THEN calculate_trap_levels(row)
    ELSE <<pbs, pl>>

\* "Generate New Signals": the pending pair after step 3, given the open
\* trade and the pending pair that steps 1-2 left behind
GenerateSignal(row, sig_col, ot, pbs, pl) ==
    IF ot = NoTrade /\ sig_col /\ row.composite_signal = 1 /\ row.adx_14 > 20
    THEN calculate_trap_levels(row)
    ELSE <<pbs, pl>>

\* only the buy stop dropped, the limit left behind
ExpirePending_LimitLeft(pbs, pl) == <<None, pl>>

\* the order kept for the following bars
ExpirePending_Keep(pbs, pl) == <<pbs, pl>>

\* "Pending order expires if not filled (TTL = 1 session)"
ExpirePending(pbs, pl) == <<None, None>>

\* realized capital only, the open position not marked to market
DailyEquity_Realized(row, capital, ot) == capital

\* "Record Equity": mark-to-market equity of the bar
DailyEquity(row, capital, ot) ==
    IF ot # NoTrade
    THEN RAdd(capital, RMul(Money(Px(row.close) - ot.entry_price), ot.size))
    ELSE capital

EquityPoint(date, equity) ==
    [date |-> date, equity |-> equity, drawdown |-> R(0)]

\* ------------------------------------------------------------------------
\* Input rows.  A row is one bar of the enriched series:
\* open/high/low/close, atr_14, adx_14 and composite_signal.
\* ------------------------------------------------------------------------
MaxBars == 3

\* The grid is chosen so that the trap levels of a signal bar fall on round
\* prices (base 998: stop 998, 999 or 1000) and every case of the engine
\* occurs: a fill at the stop, a fill at the open, a gap over the limit, a
\* breach of the stop-loss, of the take-profit and of both, a size bound by
\* risk (ATR 100), by capital (ATR 50), floored to zero and zero (ATR 0).
\* <<open, high, low, close>>: quiet, breakout, gap into the trap, spike,
\* gap up, sell-off, gap down, outside bar
Shapes ==
    {<<998, 998, 998, 998>>, <<998, 1000, 998, 1000>>,
     <<1000, 1000, 998, 998>>, <<998, 1500, 998, 1500>>,
     <<1500, 1500, 1500, 1500>>, <<998, 998, 700, 700>>,
     <<700, 700, 700, 700>>, <<998, 1500, 700, 998>>}

Atrs == {0, 50, 100}
Adxs == {10, 90}
Signals == {0, 1}

Rows ==
    {[open |-> s[1], high |-> s[2], low |-> s[3], close |-> s[4],
      atr_14 |-> a, adx_14 |-> x, composite_signal |-> g] :
        s \in Shapes, a \in Atrs, x \in Adxs, g \in Signals}

\* <<asset class of the profile, initial capital>> of the runs followed
Runs ==
    {<<EQUITY, 7000>>, <<COMMODITY, 7000>>, <<INDEX, 7000>>,
     <<EQUITY, 3000000>>}

\* ------------------------------------------------------------------------
\* State of one BacktestEngine.run invocation
\* ------------------------------------------------------------------------
VARIABLES
    asset_class,        \* self.profile.asset_class
    initial_capital,    \* self.initial_capital
    has_signal,         \* "composite_signal" in data.columns
    pc,                 \* "loop" while iterating bars, "done" after the return
    i,                  \* number of bars processed = index of the next bar
    current_capital,
    open_trade,         \* a Trade record, or NoTrade
    pending_buy_stop,
    pending_limit,
    stop_loss,
    take_profit,
    days_in_trade,
    highest_high_since_entry,
    trades,             \* closed trades, in the order appended
    equity_curve,       \* one record per processed bar
    result,             \* the BacktestResult, None until the return
    order_date,         \* observer: the bar of the latest order placed, -1 if none
    seen,               \* observer: what the last iteration read and decided
    entry_args,         \* a direct call of check_entry: its arguments, or None
    entry_fill,         \* and what it returned
    engines,            \* BacktestEngine instances: their fields
    invocations,        \* concurrent run() calls: engine, data, position
    frames,             \* the trade/order/equity state, by the cell that holds it
    splitter,           \* a WalkForwardSplitter and one split() generator on it
    call                \* a call of a function of the signal or feature modules

vars == <<asset_class, initial_capital, has_signal, pc, i, current_capital,
          open_trade, pending_buy_stop, pending_limit, stop_loss, take_profit,
          days_in_trade, highest_high_since_entry, trades, equity_curve,
          result, order_date, seen, entry_args, entry_fill, engines,
          invocations, frames, splitter, call>>

entry == <<entry_args, entry_fill>>

\* the state of the other entry points, idle while one run is followed
aux == <<engines, invocations, frames, splitter, call>>

AuxIdle ==
    /\ engines = <<>> /\ invocations = <<>> /\ frames = <<>>
    /\ splitter = <<>> /\ call = <<>>

\* what an iteration leaves in `seen`: the branch taken, the row values it
\* read (None when it did not read them), whether the row breached the
\* stop-loss / take-profit in force, and the fill and size it computed
Seen(branch, atr, close, sl_breach, tp_breach, fill_price, size) ==
    [branch |-> branch, atr |-> atr, close |-> close,
     sl_breach |-> sl_breach, tp_breach |-> tp_breach,
     fill_price |-> fill_price, size |-> size,
     open |-> None, stop |-> None, target |-> None]

\* what "Check Exits" worked with: the row's open, the stop-loss just
\* ratcheted and the take-profit in force
SeenExits(s, open, stop, target) ==
    [s EXCEPT !.open = Some(open), !.stop = stop, !.target = target]

NoSeen == Seen("none", None, None, FALSE, FALSE, None, None)

\* Exact arithmetic is carried in 32-bit integers.  A small EQUITY run keeps
\* whole sizes and a flat commission, so its denominators stay small; a
\* fractional-size run or a run with a per-share commission multiplies them
\* with every trade, so such a run is followed up to its second fill.
WithinArithmetic(filled) ==
    filled => (\/ asset_class = EQUITY /\ initial_capital <= 7000
               \/ Len(trades) = 0)

InitRun(runs) ==
    /\ \E run \in runs : asset_class = run[1] /\ initial_capital = run[2]
    /\ has_signal \in BOOLEAN
    /\ pc = "loop"
    /\ i = 0
    /\ current_capital = R(initial_capital)
    /\ open_trade = NoTrade
    /\ pending_buy_stop = None
    /\ pending_limit = None
    /\ stop_loss = None
    /\ take_profit = None
    /\ days_in_trade = 0
    /\ highest_high_since_entry = 0
    /\ trades = <<>>
    /\ equity_curve = <<>>
    /\ result = None
    /\ order_date = -1
    /\ seen = NoSeen
    /\ entry_args = None
    /\ entry_fill = None
    /\ AuxIdle

Init == InitRun(Runs)

\* --- 1. Manage Open Trade --- (then steps 3 and "Record Equity")
ManageOpenTrade(D, N) ==
    /\ pc = "loop" /\ i < N
    /\ open_trade # NoTrade
    /\ \E row \in D :
        LET days == days_in_trade + 1
            hh == IF Px(row.high) > highest_high_since_entry
                  THEN Px(row.high) ELSE highest_high_since_entry
            sl == UpdateStopLoss(stop_loss, ChandelierStop(hh, row.atr_14))
            ex == CheckExits(row, sl[1], take_profit, days)
            funded ==
                IF RLt(R(0), funding_rate_daily(asset_class))
                THEN [open_trade EXCEPT !.funding_fees =
                        RAdd(@, RMul(RMul(Money(open_trade.entry_price),
                                          open_trade.size),
                                     funding_rate_daily(asset_class)))]
                ELSE open_trade
            exits == Truthy(ex[1])
            closed == [TradeClose(funded, i, ex[1][1], ex[2]) EXCEPT
                         !.commission = Commission(asset_class, funded.size)]
            ot == IF exits THEN NoTrade ELSE funded
            capital == IF exits THEN UpdateCapital(current_capital, closed)
                       ELSE current_capital
            pend == GenerateSignal(row, has_signal, ot,
                                   pending_buy_stop, pending_limit)
        IN  /\ open_trade' = ot
            /\ current_capital' = capital
            /\ trades' = IF exits THEN Append(trades, closed) ELSE trades
            /\ stop_loss' = IF exits THEN None ELSE sl
            /\ take_profit' = IF exits THEN None ELSE take_profit
            /\ days_in_trade' = IF exits THEN 0 ELSE days
            /\ highest_high_since_entry' = hh
            /\ pending_buy_stop' = pend[1]
            /\ pending_limit' = pend[2]
            /\ order_date' = IF pend # <<pending_buy_stop, pending_limit>>
                             THEN i ELSE order_date
            /\ equity_curve' = Append(equity_curve,
                                 EquityPoint(i, DailyEquity(row, capital, ot)))
            /\ seen' = SeenExits(
                          Seen("open", Some(row.atr_14), Some(row.close),
                               Px(row.low) < sl[1],
                               Truthy(take_profit)
                                   /\ Px(row.high) > take_profit[1],
                               None, None),
                          Px(row.open), sl, take_profit)
    /\ i' = i + 1
    /\ UNCHANGED <<asset_class, initial_capital, has_signal, pc, result, entry, aux>>

\* --- 2. Check Pending Orders (Trap Entry) --- (then steps 3 and "Record Equity")
CheckPendingOrders(D, N) ==
    /\ pc = "loop" /\ i < N
    /\ open_trade = NoTrade
    /\ Truthy(pending_buy_stop) /\ Truthy(pending_limit)
    /\ \E row \in D :
        LET fill == check_entry(row, pending_buy_stop[1], pending_limit[1])
            filled == Truthy(fill)
            fill_price == fill[1]
            size == PositionSize(asset_class, current_capital, row.atr_14,
                                 fill_price)
            opens == filled /\ RLt(R(0), size)
            ot == IF opens
                  THEN NewTrade(i, fill_price, size,
                                Commission(asset_class, size), order_date)
                  ELSE NoTrade
            expired == ExpirePending(pending_buy_stop, pending_limit)
            pend == GenerateSignal(row, has_signal, ot, expired[1], expired[2])
        IN  /\ WithinArithmetic(filled)
            /\ open_trade' = ot
            /\ highest_high_since_entry' =
                 IF opens
                 THEN (IF Px(row.high) > fill_price THEN Px(row.high)
                       ELSE fill_price)
                 ELSE highest_high_since_entry
            /\ stop_loss' = IF opens
                            THEN Some(fill_price - 2 * Px(row.atr_14))
                            ELSE stop_loss
            /\ take_profit' = IF opens
                              THEN Some(TakeProfit(fill_price, row.atr_14,
                                                   row.adx_14))
                              ELSE take_profit
            /\ days_in_trade' = IF opens THEN 0 ELSE days_in_trade
            /\ pending_buy_stop' = pend[1]
            /\ pending_limit' = pend[2]
            /\ order_date' = IF pend # expired THEN i ELSE order_date
            /\ equity_curve' = Append(equity_curve,
                                 EquityPoint(i, DailyEquity(row, current_capital, ot)))
            /\ seen' = Seen("pending",
                            IF filled THEN Some(row.atr_14) ELSE None,
                            IF opens THEN Some(row.close) ELSE None,
                            FALSE, FALSE, fill,
                            IF filled THEN size ELSE None)
    /\ i' = i + 1
    /\ UNCHANGED <<asset_class, initial_capital, has_signal, pc,
                   current_capital, trades, result, entry, aux>>

\* neither branch 1 nor branch 2: only steps 3 and "Record Equity"
FlatBar(D, N) ==
    /\ pc = "loop" /\ i < N
    /\ open_trade = NoTrade
    /\ ~(Truthy(pending_buy_stop) /\ Truthy(pending_limit))
    /\ \E row \in D :
        LET pend == GenerateSignal(row, has_signal, open_trade,
                                   pending_buy_stop, pending_limit)
        IN  /\ pending_buy_stop' = pend[1]
            /\ pending_limit' = pend[2]
            /\ order_date' = IF pend # <<pending_buy_stop, pending_limit>>
                             THEN i ELSE order_date
            /\ equity_curve' = Append(equity_curve,
                                 EquityPoint(i, DailyEquity(row, current_capital,
                                                            open_trade)))
    /\ seen' = Seen("flat", None, None, FALSE, FALSE, None, None)
    /\ i' = i + 1
    /\ UNCHANGED <<asset_class, initial_capital, has_signal, pc,
                   current_capital, open_trade, stop_loss, take_profit,
                   days_in_trade, highest_high_since_entry, trades, result,
                   entry, aux>>

\* ------------------------------------------------------------------------
\* "Compile Result"
\* ------------------------------------------------------------------------
NaN == "NaN"

\* df_equity["equity"].cummax() at position k
RECURSIVE RollingMax(_, _)
RollingMax(curve, k) ==
    IF k = 1 THEN curve[1].equity
    ELSE RMax(RollingMax(curve, k - 1), curve[k].equity)

\* (equity - rolling_max) / rolling_max; 0/0 is not-a-number
Drawdown(curve, k) ==
    LET rolling_max == RollingMax(curve, k) IN
    IF rolling_max[1] = 0 THEN NaN
    ELSE RDiv(RSub(curve[k].equity, rolling_max), rolling_max)

WithDrawdown(curve) ==
    [k \in 1..Len(curve) |-> [curve[k] EXCEPT !.drawdown = Drawdown(curve, k)]]

RECURSIVE SumPnl(_)
SumPnl(ts) ==
    IF ts = <<>> THEN R(0) ELSE RAdd(ts[1].pnl, SumPnl(Tail(ts)))

Inf == "inf"

\* a trade that broke even counted as a win
calculate_stats_ZeroWins(ts, curve, capital0) ==
    LET closed_trades == SelectSeq(ts, LAMBDA t : t.status = "CLOSED")
        total == Len(closed_trades)
        wins == SelectSeq(closed_trades, LAMBDA t : RLe(R(0), t.pnl))
        losses == SelectSeq(closed_trades, LAMBDA t : RLt(t.pnl, R(0)))
        gross_profit == SumPnl(wins)
        gross_loss == LET l == SumPnl(losses) IN <<Abs(l[1]), l[2]>>
    IN  [trades |-> ts,
         equity_curve |-> curve,
         final_equity |-> IF ts = <<>> THEN R(capital0) ELSE R(0),
         total_trades |-> IF ts = <<>> THEN 0 ELSE total,
         win_rate |-> IF ts # <<>> /\ total > 0
                      THEN Rat(Len(wins), total) ELSE R(0),
         profit_factor |->
             IF ts # <<>> /\ total > 0
             THEN (IF RLt(R(0), gross_loss) THEN RDiv(gross_profit, gross_loss)
                   ELSE IF RLt(R(0), gross_profit) THEN Inf ELSE R(0))
             ELSE R(0)]

\* types.py: BacktestResult.calculate_stats on a fresh BacktestResult
calculate_stats(ts, curve, capital0) ==
    LET closed_trades == SelectSeq(ts, LAMBDA t : t.status = "CLOSED")
        total == Len(closed_trades)
        wins == SelectSeq(closed_trades, LAMBDA t : RLt(R(0), t.pnl))
        losses == SelectSeq(closed_trades, LAMBDA t : RLe(t.pnl, R(0)))
        gross_profit == SumPnl(wins)
        gross_loss == LET l == SumPnl(losses) IN <<Abs(l[1]), l[2]>>
    IN  [trades |-> ts,
         equity_curve |-> curve,
         final_equity |-> IF ts = <<>> THEN R(capital0) ELSE R(0),
         total_trades |-> IF ts = <<>> THEN 0 ELSE total,
         win_rate |-> IF ts # <<>> /\ total > 0
                      THEN Rat(Len(wins), total) ELSE R(0),
         profit_factor |->
             IF ts # <<>> /\ total > 0
             THEN (IF RLt(R(0), gross_loss) THEN RDiv(gross_profit, gross_loss)
                   ELSE IF RLt(R(0), gross_profit) THEN Inf ELSE R(0))
             ELSE R(0)]

\* the loop has run over all len(data) = i bars; build and return the result
CompileResult ==
    /\ pc = "loop"
    /\ pc' = "done"
    /\ equity_curve' = WithDrawdown(equity_curve)
    /\ result' = calculate_stats(trades, equity_curve', initial_capital)
    /\ UNCHANGED <<asset_class, initial_capital, has_signal, i, current_capital,
                   open_trade, pending_buy_stop, pending_limit, stop_loss,
                   take_profit, days_in_trade, highest_high_since_entry,
                   trades, order_date, seen, entry, aux>>

Next ==
    \/ ManageOpenTrade(Rows, MaxBars)
    \/ CheckPendingOrders(Rows, MaxBars)
    \/ FlatBar(Rows, MaxBars)
    \/ CompileResult

Spec == Init /\ [][Next]_vars

\* ------------------------------------------------------------------------
\* A long series for one EQUITY run: bars that all close at 998, so that a
\* position can be held to its time stop; the signal comes on a quiet bar
\* ------------------------------------------------------------------------
MaxLongBars == 12

\* quiet, breakout, sell-off, spike, outside bar
LongShapes ==
    {<<998, 998, 998, 998>>, <<998, 1000, 998, 998>>, <<998, 998, 700, 998>>,
     <<998, 1500, 998, 998>>, <<998, 1500, 700, 998>>}

LongRows ==
    {[open |-> s[1], high |-> s[2], low |-> s[3], close |-> s[4],
      atr_14 |-> 50, adx_14 |-> 90, composite_signal |-> 0] :
        s \in LongShapes}
    \cup {[open |-> 998, high |-> 998, low |-> 998, close |-> 998,
           atr_14 |-> 50, adx_14 |-> 90, composite_signal |-> 1]}

InitLong == InitRun({<<EQUITY, 7000>>}) /\ has_signal

NextLong ==
    \/ ManageOpenTrade(LongRows, MaxLongBars)
    \/ CheckPendingOrders(LongRows, MaxLongBars)
    \/ FlatBar(LongRows, MaxLongBars)
    \/ CompileResult

SpecLong == InitLong /\ [][NextLong]_vars

\* the same bars for one run of each asset class, long enough to hold a
\* position over several nights
MaxFundingBars == 6

InitFunding ==
    InitRun({<<EQUITY, 7000>>, <<COMMODITY, 7000>>, <<INDEX, 7000>>})
        /\ has_signal

NextFunding ==
    \/ ManageOpenTrade(LongRows, MaxFundingBars)
    \/ CheckPendingOrders(LongRows, MaxFundingBars)
    \/ FlatBar(LongRows, MaxFundingBars)
    \/ CompileResult

SpecFunding == InitFunding /\ [][NextFunding]_vars

\* ------------------------------------------------------------------------
\* ExecutionSimulator.check_entry called on its own, on any bar and any
\* trap levels (also a bar whose high is below its open, and a buy stop
\* above the limit)
\* ------------------------------------------------------------------------
MaxEntryPrice == 5

EntryPrices == 1..MaxEntryPrice

\* levels every half point
EntryLevels == {(PX \div 2) * k : k \in 1..(2 * MaxEntryPrice)}

InitEntry ==
    /\ asset_class = EQUITY
    /\ initial_capital = 7000
    /\ has_signal = TRUE
    /\ pc = "call"
    /\ i = 0
    /\ current_capital = R(initial_capital)
    /\ open_trade = NoTrade
    /\ pending_buy_stop = None
    /\ pending_limit = None
    /\ stop_loss = None
    /\ take_profit = None
    /\ days_in_trade = 0
    /\ highest_high_since_entry = 0
    /\ trades = <<>>
    /\ equity_curve = <<>>
    /\ result = None
    /\ order_date = -1
    /\ seen = NoSeen
    /\ entry_args \in [open : EntryPrices, high : EntryPrices,
                       buy_stop : EntryLevels, limit_price : EntryLevels]
    /\ entry_fill = None
    /\ AuxIdle

CheckEntryCall ==
    /\ pc = "call"
    /\ pc' = "returned"
    /\ entry_fill' = check_entry([open |-> entry_args.open,
                                  high |-> entry_args.high],
                                 entry_args.buy_stop, entry_args.limit_price)
    /\ UNCHANGED <<asset_class, initial_capital, has_signal, i, current_capital,
                   open_trade, pending_buy_stop, pending_limit, stop_loss,
                   take_profit, days_in_trade, highest_high_since_entry,
                   trades, equity_curve, result, order_date, seen, entry_args,
                   aux>>

SpecEntry == InitEntry /\ [][CheckEntryCall]_vars

\* ------------------------------------------------------------------------
\* Several run() calls in flight.  The state of a call (engine.py:90-102) is
\* a record held in a cell; one loop iteration of a call is RunBar applied
\* to the cell the call owns.
\* ------------------------------------------------------------------------
FreshState(capital) ==
    [current_capital |-> R(capital), open_trade |-> NoTrade,
     pending_buy_stop |-> None, pending_limit |-> None,
     stop_loss |-> None, take_profit |-> None, days_in_trade |-> 0,
     highest_high_since_entry |-> 0, trades |-> <<>>, equity_curve |-> <<>>]

\* step 1 of an iteration, on a state with an open trade
BarManage(st, row, date, ac) ==
    LET days == st.days_in_trade + 1
        hh == IF Px(row.high) > st.highest_high_since_entry
              THEN Px(row.high) ELSE st.highest_high_since_entry
        sl == UpdateStopLoss(st.stop_loss, ChandelierStop(hh, row.atr_14))
        ex == CheckExits(row, sl[1], st.take_profit, days)
        funded ==
            IF RLt(R(0), funding_rate_daily(ac))
            THEN [st.open_trade EXCEPT !.funding_fees =
                    RAdd(@, RMul(RMul(Money(st.open_trade.entry_price),
                                      st.open_trade.size),
                                 funding_rate_daily(ac)))]
            ELSE st.open_trade
        closed == [TradeClose(funded, date, ex[1][1], ex[2]) EXCEPT
                     !.commission = Commission(ac, funded.size)]
    IN  IF Truthy(ex[1])
        THEN [st EXCEPT !.open_trade = NoTrade,
                        !.current_capital = UpdateCapital(@, closed),
                        !.trades = Append(@, closed),
                        !.stop_loss = None, !.take_profit = None,
                        !.days_in_trade = 0,
                        !.highest_high_since_entry = hh]
        ELSE [st EXCEPT !.open_trade = funded, !.stop_loss = sl,
                        !.days_in_trade = days,
                        !.highest_high_since_entry = hh]

\* step 2 of an iteration, on a flat state with a pending order
BarPending(st, row, date, ac) ==
    LET fill == check_entry(row, st.pending_buy_stop[1], st.pending_limit[1])
        fill_price == fill[1]
        size == PositionSize(ac, st.current_capital, row.atr_14, fill_price)
        expired == ExpirePending(st.pending_buy_stop, st.pending_limit)
        cleared == [st EXCEPT !.pending_buy_stop = expired[1],
                              !.pending_limit = expired[2]]
    IN  IF Truthy(fill) /\ RLt(R(0), size)
        THEN [cleared EXCEPT
                !.open_trade = NewTrade(date, fill_price, size,
                                        Commission(ac, size), date - 1),
                !.highest_high_since_entry =
                    IF Px(row.high) > fill_price THEN Px(row.high)
                    ELSE fill_price,
                !.stop_loss = Some(fill_price - 2 * Px(row.atr_14)),
                !.take_profit = Some(TakeProfit(fill_price, row.atr_14,
                                                row.adx_14)),
                !.days_in_trade = 0]
        ELSE cleared

\* one iteration of the loop of run: steps 1 or 2, then 3 and "Record Equity"
RunBar(st, row, date, ac, sig_col) ==
    LET after == IF st.open_trade # NoTrade THEN BarManage(st, row, date, ac)
                 ELSE IF Truthy(st.pending_buy_stop) /\ Truthy(st.pending_limit)
                 THEN BarPending(st, row, date, ac)
                 ELSE st
        pend == GenerateSignal(row, sig_col, after.open_trade,
                               after.pending_buy_stop, after.pending_limit)
    IN  [after EXCEPT
            !.pending_buy_stop = pend[1],
            !.pending_limit = pend[2],
            !.equity_curve =
                Append(@, EquityPoint(date, DailyEquity(row, after.current_capital,
                                                        after.open_trade)))]

\* "Compile Result" on the state a loop ended in
RunResult(st, capital0) ==
    calculate_stats(st.trades, WithDrawdown(st.equity_curve), capital0)

\* the whole loop from iteration k on
RECURSIVE RunFrom(_, _, _, _, _)
RunFrom(st, data, k, ac, sig_col) ==
    IF k >= Len(data) THEN st
    ELSE RunFrom(RunBar(st, data[k + 1], k, ac, sig_col), data, k + 1, ac, sig_col)

\* what run returns for an engine and a series when nothing else is running
RunAlone(engine, data, sig_col) ==
    RunResult(RunFrom(FreshState(engine.initial_capital), data, 0,
                      engine.asset_class, sig_col),
              engine.initial_capital)

MaxPairBars == 3

\* signal on a quiet bar, breakout, sell-off
PairRows ==
    {[open |-> 998, high |-> 998, low |-> 998, close |-> 998,
      atr_14 |-> 50, adx_14 |-> 90, composite_signal |-> 1],
     [open |-> 998, high |-> 1000, low |-> 998, close |-> 1000,
      atr_14 |-> 50, adx_14 |-> 90, composite_signal |-> 0],
     [open |-> 998, high |-> 998, low |-> 700, close |-> 700,
      atr_14 |-> 50, adx_14 |-> 90, composite_signal |-> 0]}

PairSeries == [1..MaxPairBars -> PairRows]

Calls == {1, 2}

PairEngines ==
    <<[asset_class |-> EQUITY, initial_capital |-> 7000],
      [asset_class |-> INDEX, initial_capital |-> 7000]>>

\* the state kept on the engine instance, one cell for all its calls
StateOwner_Instance(c) == invocations[c].engine

\* the cell holding the state of call c: the call's own frame of locals
StateOwner(c) == c

InitPair ==
    /\ asset_class = EQUITY
    /\ initial_capital = 7000
    /\ has_signal = TRUE
    /\ pc = "calls"
    /\ i = 0
    /\ current_capital = R(initial_capital)
    /\ open_trade = NoTrade
    /\ pending_buy_stop = None
    /\ pending_limit = None
    /\ stop_loss = None
    /\ take_profit = None
    /\ days_in_trade = 0
    /\ highest_high_since_entry = 0
    /\ trades = <<>>
    /\ equity_curve = <<>>
    /\ result = None
    /\ order_date = -1
    /\ seen = NoSeen
    /\ entry_args = None
    /\ entry_fill = None
    /\ engines = PairEngines
    /\ \E e \in 1..Len(PairEngines), d1 \in PairSeries, d2 \in PairSeries :
          invocations =
              <<[engine |-> 1, data |-> d1, i |-> 0, pc |-> "new",
                 result |-> None],
                [engine |-> e, data |-> d2, i |-> 0, pc |-> "new",
                 result |-> None]>>
    /\ frames = [c \in Calls |-> FreshState(0)]
    /\ splitter = <<>>
    /\ call = <<>>

single == <<asset_class, initial_capital, has_signal, pc, i, current_capital,
            open_trade, pending_buy_stop, pending_limit, stop_loss,
            take_profit, days_in_trade, highest_high_since_entry, trades,
            equity_curve, result, order_date, seen, entry>>

\* run is entered: the state of engine.py:90-102 is initialised
StartRun(c) ==
    /\ invocations[c].pc = "new"
    /\ frames' = [frames EXCEPT ![StateOwner(c)] =
                     FreshState(engines[invocations[c].engine].initial_capital)]
    /\ invocations' = [invocations EXCEPT ![c].pc = "loop"]
    /\ UNCHANGED <<single, engines, splitter, call>>

\* one iteration of the loop of call c
RunStep(c) ==
    /\ invocations[c].pc = "loop"
    /\ invocations[c].i < Len(invocations[c].data)
    /\ frames' = [frames EXCEPT ![StateOwner(c)] =
                     RunBar(@, invocations[c].data[invocations[c].i + 1],
                            invocations[c].i,
                            engines[invocations[c].engine].asset_class, TRUE)]
    /\ invocations' = [invocations EXCEPT ![c].i = @ + 1]
    /\ UNCHANGED <<single, engines, splitter, call>>

\* the loop of call c is over: compile and return the result
ReturnRun(c) ==
    /\ invocations[c].pc = "loop"
    /\ invocations[c].i = Len(invocations[c].data)
    /\ invocations' =
          [invocations EXCEPT
              ![c].pc = "done",
              ![c].result =
                  RunResult(frames[StateOwner(c)],
                            engines[invocations[c].engine].initial_capital)]
    /\ UNCHANGED <<single, engines, frames, splitter, call>>

NextPair == \E c \in Calls : StartRun(c) \/ RunStep(c) \/ ReturnRun(c)

SpecPair == InitPair /\ [][NextPair]_vars

\* ------------------------------------------------------------------------
\* splitter.py: WalkForwardSplitter
\* A date is month * 4 + day on a small calendar whose months have 3 and 2
\* days in turn, so that adding months clips the day as pd.DateOffset does
\* (the 3rd of a long month plus one month is the 2nd of the short one).
\* ------------------------------------------------------------------------
MonthLen(m) == IF m % 2 = 0 THEN 3 ELSE 2

DateOf(m, d) == m * 4 + d

\* timestamp + pd.DateOffset(months = k)
AddMonths(date, k) ==
    LET m == (date \div 4) + k
        d == date % 4
    IN  DateOf(m, Min(d, MonthLen(m)))

\* WalkForwardSplitter.__init__
NewSplitter(train_years, test_months, roll_months, min_periods) ==
    [train_months |-> train_years * 12, test_months |-> test_months,
     roll_months |-> roll_months, min_periods |-> min_periods]

SetMin(S) == CHOOSE x \in S : \A y \in S : x <= y

SetMax(S) == CHOOSE x \in S : \A y \in S : y <= x

\* a training window of fixed length that rolls with the boundary
TrainMask_Rolling(index, current_train_end, train_months) ==
    {t \in index : t < current_train_end
                   /\ t >= AddMonths(current_train_end, -train_months)}

\* train_mask = (df.index < current_train_end)
TrainMask(index, current_train_end, train_months) ==
    {t \in index : t < current_train_end}

\* a test window open to the end of the series
TestMask_Open(index, current_train_end, test_end) ==
    {t \in index : t >= current_train_end}

\* test_mask = (df.index >= current_train_end) & (df.index < test_end)
TestMask(index, current_train_end, test_end) ==
    {t \in index : t >= current_train_end /\ t < test_end}

\* a window yielded on its training rows alone
ShouldYield_TrainOnly(train_df, test_df, min_periods) ==
    Cardinality(train_df) >= min_periods

\* if not test_df.empty and len(train_df) >= self.min_periods
ShouldYield(train_df, test_df, min_periods) ==
    test_df # {} /\ Cardinality(train_df) >= min_periods

MaxSplitMonths == 2

\* the dates a series may hold: around the start, and around one year later
SplitDates ==
    {DateOf(0, 1), DateOf(0, 3), DateOf(12, 1), DateOf(12, 3), DateOf(13, 1),
     DateOf(13, 2), DateOf(14, 2), DateOf(15, 1)}

\* splitters built with a roll step from min_roll up
SplitConfigs(min_roll) ==
    {NewSplitter(y, t, r, p) :
        y \in {0, 1}, t \in 0..MaxSplitMonths, r \in min_roll..MaxSplitMonths,
        p \in {0, 2}}

\* the generator object split(df) returns, before its first next()
InitSplitWith(min_roll) ==
    /\ asset_class = EQUITY
    /\ initial_capital = 7000
    /\ has_signal = TRUE
    /\ pc = "split"
    /\ i = 0
    /\ current_capital = R(initial_capital)
    /\ open_trade = NoTrade
    /\ pending_buy_stop = None
    /\ pending_limit = None
    /\ stop_loss = None
    /\ take_profit = None
    /\ days_in_trade = 0
    /\ highest_high_since_entry = 0
    /\ trades = <<>>
    /\ equity_curve = <<>>
    /\ result = None
    /\ order_date = -1
    /\ seen = NoSeen
    /\ entry_args = None
    /\ entry_fill = None
    /\ engines = <<>> /\ invocations = <<>> /\ frames = <<>> /\ call = <<>>
    /\ \E cfg \in SplitConfigs(min_roll), index \in SUBSET SplitDates :
          splitter = [cfg |-> cfg, index |-> index, pc |-> "start",
                      current_train_end |-> 0, windows |-> <<>>,
                      parity |-> 0]

others == <<single, engines, invocations, frames, call>>

\* lines 43-52: an empty frame ends the generator, else the first boundary
SplitEnter ==
    /\ splitter # <<>>
    /\ splitter.pc = "start"
    /\ splitter' =
          IF splitter.index = {}
          THEN [splitter EXCEPT !.pc = "done"]
          ELSE [splitter EXCEPT
                   !.pc = "loop",
                   !.current_train_end =
                       AddMonths(SetMin(splitter.index),
                                 splitter.cfg.train_months)]
    /\ UNCHANGED others

\* lines 54-74: the loop test and one iteration.  `windows` is an observer:
\* the candidate windows so far and whether each was yielded; it is kept
\* only when `observed`.  `parity` is the parity of the iterations run.
SplitIterate(observed) ==
    /\ splitter # <<>>
    /\ splitter.pc = "loop"
    /\ LET cfg == splitter.cfg
           index == splitter.index
           max_date == SetMax(index)
           current_train_end == splitter.current_train_end
           test_end == AddMonths(current_train_end, cfg.test_months)
           train_df == TrainMask(index, current_train_end, cfg.train_months)
           test_df == TestMask(index, current_train_end, test_end)
           stepped == AddMonths(current_train_end, cfg.roll_months)
           window == [boundary |-> current_train_end, train |-> train_df,
                      test |-> test_df,
                      yielded |-> ShouldYield(train_df, test_df,
                                              cfg.min_periods)]
       IN  splitter' =
              IF ~(current_train_end < max_date)
              THEN [splitter EXCEPT !.pc = "done"]
              ELSE [splitter EXCEPT
                       !.current_train_end = stepped,
                       !.parity = 1 - @,
                       !.windows = IF observed THEN Append(@, window) ELSE @,
                       !.pc = IF stepped >= max_date THEN "done" ELSE "loop"]
    /\ UNCHANGED others

InitSplit == InitSplitWith(1)

NextSplit == SplitEnter \/ SplitIterate(TRUE)

SpecSplit == InitSplit /\ [][NextSplit]_vars

\* every roll step the constructor accepts from 0 up; the consumer keeps
\* calling next() on the generator
InitSplitAny == InitSplitWith(0)

NextSplitAny == SplitEnter \/ SplitIterate(FALSE)

SpecSplitAny ==
    InitSplitAny /\ [][NextSplitAny]_vars /\ WF_vars(NextSplitAny)

\* ------------------------------------------------------------------------
\* Signal and feature functions, called on their own.  A float is a record:
\* nan tells a not-a-number from a number, v is the number as a rational.
\* ------------------------------------------------------------------------
FloatNaN == [nan |-> TRUE, v |-> R(0)]

Float(r) == [nan |-> FALSE, v |-> r]

\* a float operation yields not-a-number when an operand is one
FAdd(a, b) == IF a.nan \/ b.nan THEN FloatNaN ELSE Float(RAdd(a.v, b.v))

FMul(a, b) == IF a.nan \/ b.nan THEN FloatNaN ELSE Float(RMul(a.v, b.v))

\* a comparison with not-a-number is false
FGt(a, b) == ~a.nan /\ ~b.nan /\ RLt(b.v, a.v)

FLt(a, b) == ~a.nan /\ ~b.nan /\ RLt(a.v, b.v)

isna(x) == x.nan

fillna_Keep(x, value) == x

fillna(x, value) == IF isna(x) THEN Float(value) ELSE x

\* no backtest, concurrent pair or splitter takes part in a function call
CallOnly ==
    /\ asset_class = EQUITY
    /\ initial_capital = 7000
    /\ has_signal = TRUE
    /\ pc = "call"
    /\ i = 0
    /\ current_capital = R(initial_capital)
    /\ open_trade = NoTrade
    /\ pending_buy_stop = None
    /\ pending_limit = None
    /\ stop_loss = None
    /\ take_profit = None
    /\ days_in_trade = 0
    /\ highest_high_since_entry = 0
    /\ trades = <<>>
    /\ equity_curve = <<>>
    /\ result = None
    /\ order_date = -1
    /\ seen = NoSeen
    /\ entry_args = None
    /\ entry_fill = None
    /\ engines = <<>> /\ invocations = <<>> /\ frames = <<>>
    /\ splitter = <<>>

notcall == <<single, engines, invocations, frames, splitter>>

STRONG_BUY_THRESHOLD == Float(R(2))

BUY_THRESHOLD == Float(Rat(3, 2))

SELL_THRESHOLD == Float(Rat(-3, 2))

STRONG_SELL_THRESHOLD == Float(R(-2))

STRONG_BUY == "STRONG_BUY"

BUY == "BUY"

NEUTRAL == "NEUTRAL"

SELL == "SELL"

STRONG_SELL == "STRONG_SELL"

SignalClassification == {STRONG_BUY, BUY, NEUTRAL, SELL, STRONG_SELL}

classify_signal_Inclusive(score) ==
    IF isna(score) THEN NEUTRAL
    ELSE IF ~FLt(score, STRONG_BUY_THRESHOLD) THEN STRONG_BUY
    ELSE IF ~FLt(score, BUY_THRESHOLD) THEN BUY
    ELSE IF ~FGt(score, STRONG_SELL_THRESHOLD) THEN STRONG_SELL
    ELSE IF ~FGt(score, SELL_THRESHOLD) THEN SELL
    ELSE NEUTRAL

\* _classify_signal
classify_signal(score) ==
    IF isna(score) THEN NEUTRAL
    ELSE IF FGt(score, STRONG_BUY_THRESHOLD) THEN STRONG_BUY
    ELSE IF FGt(score, BUY_THRESHOLD) THEN BUY
    ELSE IF FLt(score, STRONG_SELL_THRESHOLD) THEN STRONG_SELL
    ELSE IF FLt(score, SELL_THRESHOLD) THEN SELL
    ELSE NEUTRAL

\* scores from -MaxScoreTenths/10 to MaxScoreTenths/10 in steps of 0.1
MaxScoreTenths == 30

Scores ==
    {FloatNaN} \cup {Float(Rat(k, 10)) : k \in -MaxScoreTenths..MaxScoreTenths}

InitClassify ==
    /\ CallOnly
    /\ \E score \in Scores :
          call = [fn |-> "_classify_signal", pc |-> "call", score |-> score,
                  ret |-> ""]

\* one call _classify_signal(score)
ClassifyCall ==
    /\ call # <<>>
    /\ call.fn = "_classify_signal"
    /\ call.pc = "call"
    /\ call' = [call EXCEPT !.pc = "returned",
                            !.ret = classify_signal(call.score)]
    /\ UNCHANGED notcall

SpecClassify == InitClassify /\ [][ClassifyCall]_vars

\* the weights in dict order, as (component, weight) pairs
WEIGHTS_WITH_VOLUME ==
    << <<"momentum", Rat(40, 100)>>, <<"trend", Rat(20, 100)>>,
       <<"rsi", Rat(15, 100)>>, <<"volume", Rat(10, 100)>>,
       <<"volatility", Rat(10, 100)>>, <<"sr", Rat(5, 100)>> >>

RECURSIVE SumWeights(_, _)
SumWeights(ws, k) ==
    IF k = 0 THEN R(0) ELSE RAdd(SumWeights(ws, k - 1), ws[k][2])

non_volume_total ==
    SumWeights(SelectSeq(WEIGHTS_WITH_VOLUME, LAMBDA p : p[1] # "volume"), 5)

RECURSIVE Redistribute(_, _)
Redistribute(ws, k) ==
    IF k = 0 THEN <<>>
    ELSE Append(Redistribute(ws, k - 1),
                <<ws[k][1], RDiv(ws[k][2], non_volume_total)>>)

WEIGHTS_WITHOUT_VOLUME ==
    Redistribute(SelectSeq(WEIGHTS_WITH_VOLUME, LAMBDA p : p[1] # "volume"), 5)

Components(volume_features) ==
    IF volume_features
    THEN {"momentum", "trend", "rsi", "volume", "volatility", "sr"}
    ELSE {"momentum", "trend", "rsi", "volatility", "sr"}

\* the loop of step 3 of score, on one bar, through the first k weights
RECURSIVE WeightedSum(_, _, _)
WeightedSum(weights, z_scored, k) ==
    IF k = 0 THEN Float(R(0))
    ELSE FAdd(WeightedSum(weights, z_scored, k - 1),
              FMul(Float(weights[k][2]),
                   fillna(z_scored[weights[k][1]], R(0))))

\* the z-scored components of one bar: not-a-number, or one of four numbers
MaxZ == 3

Zs == {FloatNaN} \cup {Float(R(z)) : z \in {-MaxZ, 0, MaxZ - 1, MaxZ}}

InitScore ==
    /\ CallOnly
    /\ \E volume_features \in BOOLEAN :
         \E z_scored \in [Components(volume_features) -> Zs] :
            call = [fn |-> "score", pc |-> "call",
                    volume_features |-> volume_features,
                    z_scored |-> z_scored,
                    composite |-> FloatNaN, signal |-> ""]

\* steps 3 and 4 of MomentumComposite.score on one bar
ScoreCall ==
    /\ call # <<>>
    /\ call.fn = "score"
    /\ call.pc = "call"
    /\ LET weights == IF call.volume_features THEN WEIGHTS_WITH_VOLUME
                      ELSE WEIGHTS_WITHOUT_VOLUME
           composite == WeightedSum(weights, call.z_scored, Len(weights))
       IN  call' = [call EXCEPT !.pc = "returned",
                                !.composite = composite,
                                !.signal = classify_signal(composite)]
    /\ UNCHANGED notcall

SpecScore == InitScore /\ [][ScoreCall]_vars

\* ------------------------------------------------------------------------
\* BacktestResult.calculate_stats called on a result built by hand: the
\* list may hold trades that are still open
\* ------------------------------------------------------------------------
MaxStatTrades == 3

\* a trade as calculate_stats reads it; an open trade has the default pnl
StatTrades ==
    {[status |-> "OPEN", pnl |-> R(0)]}
        \cup {[status |-> "CLOSED", pnl |-> R(p)] : p \in {-2, 0, 1, 3}}

TradeLists == UNION {[1..n -> StatTrades] : n \in 0..MaxStatTrades}

InitStats ==
    /\ CallOnly
    /\ \E ts \in TradeLists :
          call = [fn |-> "calculate_stats", pc |-> "call", trades |-> ts,
                  initial_capital |-> 7000, ret |-> None]

\* BacktestResult(ticker, trades).calculate_stats(initial_capital)
StatsCall ==
    /\ call # <<>>
    /\ call.fn = "calculate_stats"
    /\ call.pc = "call"
    /\ call' = [call EXCEPT
                   !.pc = "returned",
                   !.ret = Some(calculate_stats(call.trades, <<>>,
                                                call.initial_capital))]
    /\ UNCHANGED notcall

SpecStats == InitStats /\ [][StatsCall]_vars

\* ------------------------------------------------------------------------
\* FeatureEngine.compute: the relative-strength column.  A series is a
\* function from dates to floats; the frame's dates are 1..n, so a date is
\* also the bar's position.
\* ------------------------------------------------------------------------
MIN_ROWS == 50

z_period == 20

\* a division by not-a-number is not-a-number (benchmark closes are positive)
FDiv(a, b) == IF a.nan \/ b.nan THEN FloatNaN ELSE Float(RDiv(a.v, b.v))

\* Series.reindex(index): a date the series lacks gets not-a-number
reindex(series, index) ==
    [d \in index |-> IF d \in DOMAIN series THEN series[d] ELSE FloatNaN]

RECURSIVE WindowSum(_, _, _)
WindowSum(f, lo, hi) ==
    IF hi < lo THEN R(0)
    ELSE IF hi = lo THEN f[lo]
    ELSE LET mid == (lo + hi) \div 2
         IN  RAdd(WindowSum(f, lo, mid), WindowSum(f, mid + 1, hi))

\* rolling(window).mean() at bar k: not-a-number until the window holds
\* `window` numbers
rolling_mean(s, window, k) ==
    IF k < window \/ \E j \in (k - window + 1)..k : s[j].nan
    THEN FloatNaN
    ELSE Float(RDiv(WindowSum([j \in DOMAIN s |-> s[j].v],
                              k - window + 1, k),
                    R(window)))

\* the square of rolling(window).std() at bar k (sample variance)
rolling_var(s, window, k) ==
    LET m == rolling_mean(s, window, k)
    IN  IF m.nan THEN FloatNaN
        ELSE Float(RDiv(WindowSum([j \in DOMAIN s |->
                                      IF s[j].nan THEN R(0)
                                      ELSE RMul(RSub(s[j].v, m.v),
                                                RSub(s[j].v, m.v))],
                                  k - window + 1, k),
                        R(window - 1)))

\* a z-score that is a number is kept as its sign and its square, both
\* exact; ZNumber(0, 0) is 0.0
ZNaN == [nan |-> TRUE, sign |-> 0, sq |-> R(0)]

ZNumber(sign, sq) == [nan |-> FALSE, sign |-> sign, sq |-> sq]

\* (rs_ratio - rolling_mean) / rolling_std at bar k; 0/0 is not-a-number
ZScoreAt(rs_ratio, window, k) ==
    LET m == rolling_mean(rs_ratio, window, k)
        v == rolling_var(rs_ratio, window, k)
    IN  IF rs_ratio[k].nan \/ m.nan \/ v.nan THEN ZNaN
        ELSE LET diff == RSub(rs_ratio[k].v, m.v)
             IN  IF v.v = R(0) THEN ZNaN
                 ELSE ZNumber(IF RLt(diff, R(0)) THEN -1
                              ELSE IF RLt(R(0), diff) THEN 1 ELSE 0,
                              RDiv(RMul(diff, diff), v.v))

\* z_score.fillna(0.0)
zfillna(z) == IF z.nan THEN ZNumber(0, R(0)) ELSE z

relative_strength_Window(asset_close, benchmark_close, window) ==
    LET rs_ratio == [d \in DOMAIN asset_close |->
                        FDiv(asset_close[d], benchmark_close[d])]
    IN  [d \in DOMAIN asset_close |-> zfillna(ZScoreAt(rs_ratio, window, d))]

relative_strength(asset_close, benchmark_close) ==
    relative_strength_Window(asset_close, benchmark_close, z_period)

\* asset closes: flat, or alternating; benchmark closes likewise
FlatSeries(index, a) == [d \in index |-> Float(R(a))]

ZigZagSeries(index, a, b) ==
    [d \in index |-> Float(R(IF d % 2 = 0 THEN a ELSE b))]

FrameCloses(n) == {FlatSeries(1..n, 2), ZigZagSeries(1..n, 2, 4)}

\* the asset dates a benchmark may lack: first, last, and two inside
Gaps(n) == SUBSET {1, z_period, n - z_period + 5, n}

Benchmarks(n) ==
    {None} \cup
    UNION {{Some(FlatSeries((1..n) \ gap, 1)),
            Some(ZigZagSeries((1..n) \ gap, 1, 2))} : gap \in Gaps(n)}

InitCompute ==
    /\ CallOnly
    /\ \E n \in {MIN_ROWS - 1, MIN_ROWS} :
         \E close \in FrameCloses(n), benchmark \in Benchmarks(n) :
            call = [fn |-> "compute", pc |-> "call", close |-> close,
                    benchmark |-> benchmark, rs_zscore |-> None]

\* FeatureEngine.compute, as far as rs_zscore goes: _validate_input raises
\* on a short frame; the column is added when a benchmark is given
ComputeCall ==
    /\ call # <<>>
    /\ call.fn = "compute"
    /\ call.pc = "call"
    /\ call' =
          IF Len(call.close) < MIN_ROWS
          THEN [call EXCEPT !.pc = "raised"]
          ELSE IF call.benchmark # None
          THEN LET aligned_benchmark ==
                       reindex(call.benchmark[1], DOMAIN call.close)
               IN  [call EXCEPT
                       !.pc = "returned",
                       !.rs_zscore =
                           Some(relative_strength(call.close,
                                                  aligned_benchmark))]
          ELSE [call EXCEPT !.pc = "returned"]
    /\ UNCHANGED notcall

SpecCompute == InitCompute /\ [][ComputeCall]_vars

\* ------------------------------------------------------------------------
\* The indicator library: the checks each function makes on its arguments
\* before it computes.  A series is given by its length, a period by its
\* value; TRUE means the function raises ValueError.
\* ------------------------------------------------------------------------
rsi_raises(close, period) == period < 1 \/ close = 0

\* no check on the series
macd_histogram_raises(close, fast, slow, signal) ==
    (fast < 1 \/ slow < 1 \/ signal < 1) \/ fast >= slow

obv_raises(close, volume) == (close = 0 \/ volume = 0) \/ close # volume

ema_raises(series, period) == period < 1 \/ series = 0

adx_raises(high, low, close, period) ==
    \/ period < 1
    \/ high = 0 \/ low = 0 \/ close = 0
    \/ ~(high = low /\ low = close)

ema_fan_raises(close) == close = 0

atr_raises(high, low, close, period) ==
    \/ period < 1
    \/ high = 0 \/ low = 0 \/ close = 0
    \/ ~(high = low /\ low = close)

upper_wick_ratio_raises(open, high, low, close) ==
    \/ open = 0 \/ high = 0 \/ low = 0 \/ close = 0
    \/ ~(open = high /\ high = low /\ low = close)

lower_wick_ratio_raises(open, high, low, close) ==
    \/ open = 0 \/ high = 0 \/ low = 0 \/ close = 0
    \/ ~(open = high /\ high = low /\ low = close)

volume_ratio_raises(volume, short, long) ==
    (short < 1 \/ long < 1) \/ short >= long \/ volume = 0

distance_from_low_raises(close, low, period) ==
    period < 1 \/ (close = 0 \/ low = 0) \/ close # low

\* relative_strength has no check of its own
relative_strength_raises(asset_close, benchmark_close, window) == FALSE

\* the functions: <<name, number of series, number of periods>>
Indicators ==
    {<<"rsi", 1, 1>>, <<"macd_histogram", 1, 3>>, <<"obv", 2, 0>>,
     <<"ema", 1, 1>>, <<"adx", 3, 1>>, <<"ema_fan", 1, 0>>, <<"atr", 3, 1>>,
     <<"upper_wick_ratio", 4, 0>>, <<"lower_wick_ratio", 4, 0>>,
     <<"volume_ratio", 1, 2>>, <<"distance_from_low", 2, 1>>,
     <<"relative_strength", 2, 1>>}

Raises(fn, s, p) ==
    CASE fn = "rsi" -> rsi_raises(s[1], p[1])
      [] fn = "macd_histogram" -> macd_histogram_raises(s[1], p[1], p[2], p[3])
      [] fn = "obv" -> obv_raises(s[1], s[2])
      [] fn = "ema" -> ema_raises(s[1], p[1])
      [] fn = "adx" -> adx_raises(s[1], s[2], s[3], p[1])
      [] fn = "ema_fan" -> ema_fan_raises(s[1])
      [] fn = "atr" -> atr_raises(s[1], s[2], s[3], p[1])
      [] fn = "upper_wick_ratio" ->
             upper_wick_ratio_raises(s[1], s[2], s[3], s[4])
      [] fn = "lower_wick_ratio" ->
             lower_wick_ratio_raises(s[1], s[2], s[3], s[4])
      [] fn = "volume_ratio" -> volume_ratio_raises(s[1], p[1], p[2])
      [] fn = "distance_from_low" -> distance_from_low_raises(s[1], s[2], p[1])
      [] fn = "relative_strength" ->
             relative_strength_raises(s[1], s[2], p[1])

\* how a call can end.  relative_strength hands z_period to
\* Series.rolling unchecked: whether a window below 1 raises there depends
\* on the pandas installed, so both ends are possible.
Outcomes(fn, s, p) ==
    IF Raises(fn, s, p) THEN {"raised"}
    ELSE IF fn = "relative_strength" /\ p[1] < 1 THEN {"raised", "returned"}
    ELSE {"returned"}

MaxSeriesLen == 2

MaxPeriod == 2

InitIndicator ==
    /\ CallOnly
    /\ \E f \in Indicators :
         \E s \in [1..f[2] -> 0..MaxSeriesLen], p \in [1..f[3] -> 0..MaxPeriod] :
            call = [fn |-> f[1], pc |-> "call", series |-> s, periods |-> p]

\* one call of a function of the library
IndicatorCall ==
    /\ call # <<>>
    /\ \E f \in Indicators : call.fn = f[1]
    /\ call.pc = "call"
    /\ \E end \in Outcomes(call.fn, call.series, call.periods) :
          call' = [call EXCEPT !.pc = end]
    /\ UNCHANGED notcall

SpecIndicator == InitIndicator /\ [][IndicatorCall]_vars

\* ------------------------------------------------------------------------
\* rsi.  A series is a sequence of floats, bar 1 first.
\* ------------------------------------------------------------------------
FSub(a, b) == IF a.nan \/ b.nan THEN FloatNaN ELSE Float(RSub(a.v, b.v))

\* close.diff(): the first bar has no predecessor
diff(close) ==
    [t \in 1..Len(close) |->
        IF t = 1 THEN FloatNaN ELSE FSub(close[t], close[t - 1])]

\* series.where(cond, other), bar by bar
where(x, cond, other) == IF cond THEN x ELSE other

\* ewm(alpha = 1 / period, adjust = False).mean() at bar t, on a series
\* without gaps: y[1] = x[1], y[t] = (1 - alpha) * y[t-1] + alpha * x[t]
RECURSIVE WilderMean(_, _, _)
WilderMean(x, period, t) ==
    IF t = 1 THEN x[1].v
    ELSE RAdd(RMul(Rat(period - 1, period), WilderMean(x, period, t - 1)),
              RMul(Rat(1, period), x[t].v))

\* min_periods = period: not-a-number until `period` values have been seen
ewm_mean(x, period) ==
    [t \in 1..Len(x) |->
        IF t < period THEN FloatNaN ELSE Float(WilderMean(x, period, t))]

\* 100.0 - 100.0 / (1.0 + avg_gain / avg_loss) in float arithmetic: 0/0 is
\* not-a-number; g/0 is infinity for g > 0, and 100 - 100/infinity is 100
RsiValue(avg_gain, avg_loss) ==
    IF avg_gain.nan \/ avg_loss.nan THEN FloatNaN
    ELSE IF avg_loss.v = R(0)
    THEN (IF avg_gain.v = R(0) THEN FloatNaN ELSE Float(R(100)))
    ELSE Float(RSub(R(100),
                    RDiv(R(100), RAdd(R(1), RDiv(avg_gain.v, avg_loss.v)))))

\* the two saturations applied in the other order
Saturate_GainFirst(value, avg_gain, avg_loss) ==
    where(where(value, FGt(avg_gain, Float(R(0))), Float(R(0))),
          FGt(avg_loss, Float(R(0))), Float(R(100)))

\* result.where(avg_loss > 0, 100.0), then result.where(avg_gain > 0, 0.0)
Saturate(value, avg_gain, avg_loss) ==
    where(where(value, FGt(avg_loss, Float(R(0))), Float(R(100))),
          FGt(avg_gain, Float(R(0))), Float(R(0)))

\* rsi(close, period) past its validation: the smoothed averages, which
\* the caller does not see, and the series returned
rsi(close, period) ==
    LET delta == diff(close)
        gains == [t \in 1..Len(close) |->
                     where(delta[t], FGt(delta[t], Float(R(0))), Float(R(0)))]
        losses == [t \in 1..Len(close) |->
                      where(FSub(Float(R(0)), delta[t]),
                            FLt(delta[t], Float(R(0))), Float(R(0)))]
        avg_gain == ewm_mean(gains, period)
        avg_loss == ewm_mean(losses, period)
        values == [t \in 1..Len(close) |->
                      IF t <= period THEN FloatNaN
                      ELSE Saturate(RsiValue(avg_gain[t], avg_loss[t]),
                                    avg_gain[t], avg_loss[t])]
    IN  [avg_gain |-> avg_gain, avg_loss |-> avg_loss, result |-> values]

MaxRsiBars == 4

MaxRsiPeriod == 2

RsiCloses ==
    UNION {[1..n -> {Float(R(c)) : c \in {1, 2, 3}}] : n \in 0..MaxRsiBars}

InitRsi ==
    /\ CallOnly
    /\ \E close \in RsiCloses, period \in 0..MaxRsiPeriod :
          call = [fn |-> "rsi", pc |-> "call", close |-> close,
                  period |-> period, avg_gain |-> <<>>, avg_loss |-> <<>>,
                  ret |-> <<>>]

\* one call rsi(close, period)
RsiCall ==
    /\ call # <<>>
    /\ call.fn = "rsi"
    /\ call.pc = "call"
    /\ call' =
          IF rsi_raises(Len(call.close), call.period)
          THEN [call EXCEPT !.pc = "raised"]
          ELSE LET r == rsi(call.close, call.period)
               IN  [call EXCEPT !.pc = "returned",
                                !.avg_gain = r.avg_gain,
                                !.avg_loss = r.avg_loss,
                                !.ret = r.result]
    /\ UNCHANGED notcall

SpecRsi == InitRsi /\ [][RsiCall]_vars

\* ------------------------------------------------------------------------
\* Properties
\* ------------------------------------------------------------------------
\* C1: a pending order placed on bar i is evaluated on bar i+1 only and is
\* then discarded: every trade, open or closed, entered on the bar right
\* after the bar that placed its order, and an order still pending when bar
\* i starts was placed on bar i-1, never earlier.
C1_OrderLivesOneBar ==
    /\ \A k \in 1..Len(trades) :
          trades[k].entry_date = trades[k].order_date + 1
    /\ open_trade # NoTrade =>
          open_trade.entry_date = open_trade.order_date + 1
    /\ (pending_buy_stop # None \/ pending_limit # None) =>
          order_date = i - 1

\* a trade filled on the bar after its order, and the order is gone
C1_Witness ==
    /\ open_trade # NoTrade
    /\ open_trade.order_date >= 0
    /\ open_trade.entry_date = open_trade.order_date + 1
    /\ pending_buy_stop = None /\ pending_limit = None

\* C2 as stated: an order is placed on a bar only if that bar started with
\* neither an open position nor a pending order.
C2_OrderOnlyFromFlat ==
    [][order_date' # order_date =>
          /\ open_trade = NoTrade
          /\ pending_buy_stop = None /\ pending_limit = None]_vars

\* C2 amended: an order is placed on bar i only if no position is open once
\* steps 1-2 of that bar are done, whatever the bar started with.
C2_OrderOnlyWithoutPosition ==
    [][order_date' # order_date =>
          /\ order_date' = i
          /\ open_trade' = NoTrade
          /\ Truthy(pending_buy_stop') /\ Truthy(pending_limit')]_vars

\* an order placed on the very bar that closed a position
C2_Witness ==
    /\ trades # <<>>
    /\ trades[Len(trades)].exit_date = order_date
    /\ open_trade = NoTrade
    /\ Truthy(pending_buy_stop)

C4_StopRatchet ==
    [][(open_trade # NoTrade /\ open_trade' # NoTrade /\ i' = i + 1) =>
          /\ stop_loss'[1] >= stop_loss[1]
          /\ stop_loss'[1] >= highest_high_since_entry' - 2 * Px(seen'.atr[1])
          /\ \/ stop_loss'[1] = stop_loss[1]
             \/ stop_loss'[1] =
                   highest_high_since_entry' - 2 * Px(seen'.atr[1])]_vars

\* a managed bar whose chandelier level fell below the stop-loss in force
C4_Witness ==
    /\ open_trade # NoTrade
    /\ seen.branch = "open"
    /\ days_in_trade >= 1
    /\ stop_loss[1] > highest_high_since_entry - 2 * Px(seen.atr[1])

\* C5: a position that breaches neither level is closed on the 10th bar
\* after its entry bar, at that bar's close, with TIME_STOP; so an open
\* position has been held fewer than 10 bars, no closed trade spans more
\* than 10 bars, one closed earlier was stopped out or took profit, and a
\* TIME_STOP trade spans exactly 10 bars and exits at the close.
C5_TimeStopOnTenthBar ==
    /\ open_trade # NoTrade =>
          /\ days_in_trade = (i - 1) - open_trade.entry_date
          /\ days_in_trade < 10
    /\ \A k \in 1..Len(trades) :
          LET held == trades[k].exit_date - trades[k].entry_date IN
          /\ held >= 1 /\ held <= 10
          /\ held < 10 => trades[k].exit_reason \in {STOP_LOSS, TAKE_PROFIT}
          /\ trades[k].exit_reason = TIME_STOP => held = 10
    /\ (/\ seen.branch = "open"
        /\ open_trade = NoTrade
        /\ trades # <<>>
        /\ trades[Len(trades)].exit_date = i - 1
        /\ trades[Len(trades)].exit_reason = TIME_STOP) =>
          trades[Len(trades)].exit_price = Px(seen.close[1])

\* a trade closed by the time stop, ten bars after its entry, at the close
C5_Witness ==
    /\ trades # <<>>
    /\ trades[1].exit_reason = TIME_STOP
    /\ trades[1].exit_date = trades[1].entry_date + 10
    /\ trades[1].exit_price = Px(998)

\* C6: check_entry returns no fill for a bar that opens strictly above the
\* limit price, whatever the bar's high and whatever the buy stop.
C6_NoFillAboveLimit ==
    (pc = "returned" /\ Px(entry_args.open) > entry_args.limit_price) =>
        entry_fill = None

\* a bar that opened over the limit of a well-formed order and traded
\* through its stop, and was not filled
C6_Witness ==
    /\ pc = "returned"
    /\ entry_args.buy_stop <= entry_args.limit_price
    /\ Px(entry_args.open) > entry_args.limit_price
    /\ Px(entry_args.high) >= Px(entry_args.open)
    /\ entry_fill = None

\* C7: for an order with buy stop <= limit, check_entry returns no fill
\* when the high is below the buy stop; otherwise, when the open is not
\* above the limit, it fills at the buy stop if the bar opens below it and
\* at the open if the bar opens between the buy stop and the limit.
C7_FillPrice ==
    (pc = "returned" /\ entry_args.buy_stop <= entry_args.limit_price) =>
        /\ Px(entry_args.high) < entry_args.buy_stop => entry_fill = None
        /\ (/\ Px(entry_args.high) >= entry_args.buy_stop
            /\ Px(entry_args.open) <= entry_args.limit_price) =>
               entry_fill = Some(IF Px(entry_args.open) < entry_args.buy_stop
                                 THEN entry_args.buy_stop
                                 ELSE Px(entry_args.open))

\* a bar that opened between the buy stop and the limit, filled at its open
C7_Witness ==
    /\ pc = "returned"
    /\ entry_args.buy_stop < Px(entry_args.open)
    /\ Px(entry_args.open) < entry_args.limit_price
    /\ Px(entry_args.high) > Px(entry_args.open)
    /\ entry_fill = Some(Px(entry_args.open))

\* C8: on a series without the composite_signal column the run places no
\* order and opens no position on any bar, records the initial capital as
\* the equity of every bar, and returns a result with zero trades and one
\* equity point per bar.
C8_NoSignalColumn ==
    ~has_signal =>
        /\ open_trade = NoTrade
        /\ pending_buy_stop = None /\ pending_limit = None
        /\ order_date = -1
        /\ trades = <<>>
        /\ current_capital = R(initial_capital)
        /\ Len(equity_curve) = i
        /\ \A k \in 1..Len(equity_curve) :
              equity_curve[k].equity = R(initial_capital)
        /\ pc = "done" =>
              /\ result.trades = <<>>
              /\ result.total_trades = 0
              /\ Len(result.equity_curve) = i

\* a run over two or more bars without the column has returned
C8_Witness ==
    /\ ~has_signal
    /\ pc = "done"
    /\ i >= 2
    /\ result.total_trades = 0
    /\ Len(result.equity_curve) = i

\* C9: on a fill the size is the smaller of (2% of realized capital) /
\* (2 x ATR) and (15% of realized capital) / fill price, floored to a whole
\* number for EQUITY: a trade opens exactly when that size is > 0, and then
\* size x fill price <= 15% of capital and size x 2 x ATR <= 2% of capital;
\* a fractional size meets one of the two bounds with equality, a whole size
\* is the largest whole number within both.  With an ATR of 0 the risk-based
\* size counts as 0, so no trade opens.
C9_PositionSize ==
    /\ \A k \in 1..Len(trades) : RLt(R(0), trades[k].size)
    /\ (seen.branch = "pending" /\ seen.fill_price # None) =>
          LET size == seen.size
              cost == RMul(size, Money(seen.fill_price[1]))
              risk == RMul(size, Money(2 * Px(seen.atr[1])))
              max_cost == RMul(current_capital, Rat(15, 100))
              max_risk == RMul(current_capital, Rat(2, 100))
              more == RAdd(size, R(1))
          IN  /\ open_trade # NoTrade <=> RLt(R(0), size)
              /\ open_trade # NoTrade =>
                    /\ open_trade.size = size
                    /\ open_trade.entry_price = seen.fill_price[1]
                    /\ RLe(cost, max_cost)
                    /\ RLe(risk, max_risk)
              /\ seen.atr[1] = 0 => size = R(0)
              /\ asset_class = EQUITY => size[2] = 1
              /\ (asset_class = EQUITY /\ seen.atr[1] > 0) =>
                    /\ RLe(R(0), size)
                    /\ \/ RLt(max_cost, RMul(more, Money(seen.fill_price[1])))
                       \/ RLt(max_risk, RMul(more, Money(2 * Px(seen.atr[1]))))
              /\ (asset_class # EQUITY /\ seen.atr[1] > 0) =>
                    cost = max_cost \/ risk = max_risk

\* a fractional position bound by the 15% capital cap, below its risk budget
C9_Witness ==
    /\ seen.branch = "pending"
    /\ open_trade # NoTrade
    /\ asset_class # EQUITY
    /\ RMul(open_trade.size, Money(open_trade.entry_price)) =
          RMul(current_capital, Rat(15, 100))
    /\ RLt(RMul(open_trade.size, Money(2 * Px(seen.atr[1]))),
           RMul(current_capital, Rat(2, 100)))

\* C10: one equity point per processed bar, in bar order; the point of a
\* bar is the realized capital plus (close - entry price) x size of the
\* position open at the end of the bar, the realized capital alone when
\* flat; in the result the drawdown of a point is (equity - peak) / peak for
\* the highest equity up to that point, never positive, and 0 at a new peak.
C10_EquityCurve ==
    /\ Len(equity_curve) = i
    /\ \A k \in 1..Len(equity_curve) : equity_curve[k].date = k - 1
    /\ (pc = "loop" /\ i > 0) =>
          equity_curve[i].equity =
              IF open_trade # NoTrade
              THEN RAdd(current_capital,
                        RMul(Money(Px(seen.close[1]) - open_trade.entry_price),
                             open_trade.size))
              ELSE current_capital
    /\ pc = "done" =>
          \A k \in 1..Len(equity_curve) :
              LET upto == {equity_curve[j].equity : j \in 1..k}
                  peak == CHOOSE e \in upto : \A f \in upto : RLe(f, e)
                  dd == equity_curve[k].drawdown
              IN  /\ dd = RDiv(RSub(equity_curve[k].equity, peak), peak)
                  /\ RLe(dd, R(0))
                  /\ equity_curve[k].equity = peak => dd = R(0)

\* a returned curve with a bar below the peak, after a bar that marked an
\* open position above the initial capital
C10_Witness ==
    /\ pc = "done"
    /\ \E k \in 1..Len(equity_curve) :
          /\ RLt(equity_curve[k].drawdown, R(0))
          /\ \E j \in 1..(k - 1) :
                RLt(R(initial_capital), equity_curve[j].equity)

C12_FinalEquity ==
    pc = "done" =>
        /\ result.trades = trades
        /\ current_capital = RAdd(R(initial_capital), SumPnl(result.trades))
        /\ result.final_equity = current_capital

\* C13: run() calls in flight together, on one engine or on two, share no
\* state: a call that has entered its loop and processed no bar holds a
\* freshly initialised state, a call that has returned has returned the
\* result the same engine gives for the same series when run alone, and
\* the fields of the engines never change.
C13_RunsAreIndependent ==
    /\ engines = PairEngines
    /\ \A c \in Calls :
          /\ (invocations[c].pc = "loop" /\ invocations[c].i = 0) =>
                frames[StateOwner(c)] =
                    FreshState(engines[invocations[c].engine].initial_capital)
          /\ invocations[c].pc = "done" =>
                invocations[c].result =
                    RunAlone(engines[invocations[c].engine],
                             invocations[c].data, TRUE)

\* two calls on the same engine have both returned, with different trades
C13_Witness ==
    /\ invocations[1].pc = "done" /\ invocations[2].pc = "done"
    /\ invocations[1].engine = invocations[2].engine
    /\ Len(invocations[1].result.trades) = 1
    /\ invocations[2].result.trades = <<>>

\* C14: in every pair that split yields the train range is the series from
\* its first bar on (a non-empty train range starts at the first bar and
\* leaves out no bar up to its last one; it is empty only for a window whose
\* boundary is the first date itself) and every train bar is dated strictly
\* before every test bar.
C14_TrainBeforeTest ==
    (splitter # <<>> /\ splitter.index # {}) =>
        \A k \in 1..Len(splitter.windows) :
            LET w == splitter.windows[k]
                first == SetMin(splitter.index)
            IN  w.yielded =>
                  /\ w.train # {} =>
                        /\ SetMin(w.train) = first
                        /\ w.train =
                              {t \in splitter.index : t <= SetMax(w.train)}
                  /\ w.train = {} => w.boundary <= first
                  /\ \A a \in w.train : \A b \in w.test : a < b
                  /\ w.train \cap w.test = {}

\* a second window was yielded, with train bars in two different years
C14_Witness ==
    /\ splitter # <<>>
    /\ Len(splitter.windows) >= 2
    /\ splitter.windows[2].yielded
    /\ DateOf(0, 3) \in splitter.windows[2].train
    /\ DateOf(12, 3) \in splitter.windows[2].train
    /\ splitter.windows[2].test # {}

\* C15: for every configuration the constructor accepts and every series,
\* a consumer that keeps iterating split(series) reaches its end.
C15_SplitTerminates == <>(splitter.pc = "done")

\* C16: a candidate window is yielded if and only if its test range holds a
\* bar and its train range holds at least min_periods rows; a skipped
\* candidate does not end the iteration, which ends only when the boundary
\* has reached the last date.
C16_YieldCondition ==
    (splitter # <<>> /\ splitter.index # {}) =>
        /\ \A k \in 1..Len(splitter.windows) :
              LET w == splitter.windows[k] IN
              w.yielded <=>
                  (/\ \E t \in splitter.index : t \in w.test
                   /\ Cardinality(w.train) >= splitter.cfg.min_periods)
        /\ splitter.pc = "done" =>
              splitter.current_train_end >= SetMax(splitter.index)

\* a candidate was skipped and a later one was yielded
C16_Witness ==
    /\ splitter # <<>>
    /\ \E j, k \in 1..Len(splitter.windows) :
          /\ j < k
          /\ ~splitter.windows[j].yielded
          /\ splitter.windows[j].test = {}
          /\ splitter.windows[k].yielded

\* C17: the first boundary is the first date plus the train length and each
\* later one is the previous boundary plus the roll step; a window's train
\* range is every bar before its boundary (so train ranges are nested), its
\* test range every bar in [boundary, boundary + test length); a window is
\* formed only while the boundary is before the last date and the
\* iteration stops as soon as it is not, so a series no longer than the
\* train length yields nothing.
C17_Boundaries ==
    (splitter # <<>> /\ splitter.index # {} /\ splitter.pc # "start") =>
        LET ws == splitter.windows
            cfg == splitter.cfg
            first == SetMin(splitter.index)
            last == SetMax(splitter.index)
            start == AddMonths(first, cfg.train_months)
        IN  /\ ws # <<>> => ws[1].boundary = start
            /\ \A k \in 1..(Len(ws) - 1) :
                  /\ ws[k + 1].boundary = AddMonths(ws[k].boundary,
                                                    cfg.roll_months)
                  /\ ws[k].train \subseteq ws[k + 1].train
            /\ \A k \in 1..Len(ws) :
                  /\ ws[k].boundary < last
                  /\ ws[k].train =
                        {t \in splitter.index : t < ws[k].boundary}
                  /\ ws[k].test =
                        {t \in splitter.index :
                            /\ ws[k].boundary <= t
                            /\ t < AddMonths(ws[k].boundary, cfg.test_months)}
            /\ splitter.current_train_end =
                  IF ws = <<>> THEN start
                  ELSE AddMonths(ws[Len(ws)].boundary, cfg.roll_months)
            /\ splitter.pc = "done" => splitter.current_train_end >= last
            /\ (splitter.pc = "loop" /\ ws # <<>>) =>
                  splitter.current_train_end < last
            /\ start >= last => ws = <<>>

\* a third window whose boundary, clipped to a short month on the way, is
\* not the first date plus the months rolled so far
C17_Witness ==
    /\ splitter # <<>>
    /\ Len(splitter.windows) >= 3
    /\ splitter.windows[3].boundary #
          AddMonths(SetMin(splitter.index),
                    splitter.cfg.train_months + 2 * splitter.cfg.roll_months)
    /\ splitter.windows[3].yielded

\* C18: the classification is decided by the score alone, with strict
\* thresholds: above 2.0 STRONG_BUY, above 1.5 up to 2.0 BUY, below -2.0
\* STRONG_SELL, from -2.0 to below -1.5 SELL, every other number (1.5 and
\* -1.5 included) NEUTRAL, and not-a-number NEUTRAL.
C18_Classification ==
    (call # <<>> /\ call.fn = "_classify_signal" /\ call.pc = "returned") =>
        LET s == call.score
            x == s.v
        IN  /\ call.ret \in SignalClassification
            /\ s.nan => call.ret = NEUTRAL
            /\ (~s.nan /\ x[1] * 1 > 2 * x[2]) => call.ret = STRONG_BUY
            /\ (~s.nan /\ x[1] * 2 > 3 * x[2] /\ x[1] <= 2 * x[2]) =>
                   call.ret = BUY
            /\ (~s.nan /\ x[1] < -2 * x[2]) => call.ret = STRONG_SELL
            /\ (~s.nan /\ x[1] >= -2 * x[2] /\ x[1] * 2 < -3 * x[2]) =>
                   call.ret = SELL
            /\ (~s.nan /\ x[1] * 2 >= -3 * x[2] /\ x[1] * 2 <= 3 * x[2]) =>
                   call.ret = NEUTRAL

C18_Witness ==
    /\ call # <<>> /\ call.fn = "_classify_signal" /\ call.pc = "returned"
    /\ call.score = Float(Rat(3, 2))
    /\ call.ret = NEUTRAL

\* C19: a not-a-number component adds nothing to the bar's weighted sum, so
\* the composite score is a number, the sum of weight times value over the
\* components that are numbers; when every component is not-a-number the
\* score is 0 and the signal NEUTRAL.
C19_NaNContributesZero ==
    (call # <<>> /\ call.fn = "score" /\ call.pc = "returned") =>
        LET z == call.z_scored
            names == DOMAIN z
            unit == IF call.volume_features THEN 100 ELSE 90
            w == [n \in {"momentum", "trend", "rsi", "volume", "volatility",
                         "sr"} |->
                    CASE n = "momentum" -> 40 [] n = "trend" -> 20
                      [] n = "rsi" -> 15 [] n = "sr" -> 5
                      [] OTHER -> 10]
            part(n) == IF n \in names /\ ~z[n].nan
                       THEN Rat(w[n] * z[n].v[1], unit * z[n].v[2])
                       ELSE R(0)
            total == RAdd(RAdd(RAdd(part("momentum"), part("trend")),
                               RAdd(part("rsi"), part("volume"))),
                          RAdd(part("volatility"), part("sr")))
        IN  /\ ~call.composite.nan
            /\ call.composite.v = total
            /\ (\A n \in names : z[n].nan) =>
                   (call.composite.v = R(0) /\ call.signal = NEUTRAL)

C19_Witness ==
    /\ call # <<>> /\ call.fn = "score" /\ call.pc = "returned"
    /\ call.z_scored["momentum"].nan
    /\ ~call.z_scored["trend"].nan
    /\ call.composite = Float(Rat(3, 5))

\* C20: when compute is given a benchmark, every bar whose date the
\* benchmark lacks has a not-a-number rs_zscore.
C20_MisalignedIsNaN ==
    (/\ call # <<>> /\ call.fn = "compute" /\ call.pc = "returned"
     /\ call.benchmark # None) =>
        \A d \in DOMAIN call.close :
            d \notin DOMAIN call.benchmark[1] => call.rs_zscore[1][d].nan

\* C23: exit prices are gap-aware.  A STOP_LOSS exit fills at min(open,
\* stop): at the open when the bar opened below the ratcheted stop, at the
\* stop otherwise, never above the stop.  A TAKE_PROFIT exit fills at
\* max(open, take-profit), never below the take-profit.
C23_GapAwareExits ==
    (/\ seen.branch = "open"
     /\ Len(trades) > 0
     /\ trades[Len(trades)].exit_date = i - 1) =>
        LET t == trades[Len(trades)]
            open == seen.open[1]
            stop == seen.stop[1]
            target == seen.target[1]
        IN  /\ t.exit_reason = STOP_LOSS =>
                  /\ t.exit_price = Min(open, stop)
                  /\ t.exit_price <= stop
                  /\ open < stop => t.exit_price = open
                  /\ open >= stop => t.exit_price = stop
            /\ t.exit_reason = TAKE_PROFIT =>
                  /\ t.exit_price = Max(open, target)
                  /\ t.exit_price >= target

C23_Witness ==
    /\ seen.branch = "open"
    /\ Len(trades) > 0
    /\ trades[Len(trades)].exit_date = i - 1
    /\ trades[Len(trades)].exit_reason = STOP_LOSS
    /\ seen.open[1] < seen.stop[1]
    /\ trades[Len(trades)].exit_price = seen.open[1]

\* C24: with a non-zero funding rate (COMMODITY) every bar on which a
\* position is open after its entry bar, the exit bar included, adds one
\* day of funding, entry price x size x daily rate: a trade's funding_fees
\* is that amount times the bars held since entry.  For every other asset
\* class funding_fees stays 0.
C24_FundingPerBar ==
    LET day(t) == RMul(RMul(Money(t.entry_price), t.size), Rat(8, 100000))
        due(t, bars) == IF asset_class = COMMODITY
                        THEN RMul(R(bars), day(t)) ELSE R(0)
    IN  /\ \A k \in 1..Len(trades) :
              trades[k].funding_fees =
                  due(trades[k], trades[k].exit_date - trades[k].entry_date)
        /\ open_trade # NoTrade =>
              open_trade.funding_fees =
                  due(open_trade, i - 1 - open_trade.entry_date)

C24_Witness ==
    /\ asset_class = COMMODITY
    /\ Len(trades) = 1
    /\ trades[1].exit_date - trades[1].entry_date = 3
    /\ trades[1].funding_fees =
          RMul(R(3), RMul(RMul(Money(trades[1].entry_price), trades[1].size),
                          Rat(8, 100000)))
    /\ RLt(R(0), trades[1].funding_fees)

\* C25: calculate_stats counts in total_trades the trades with status
\* CLOSED; a closed trade is a win when pnl > 0 and a loss otherwise (pnl 0
\* included); win_rate = wins / total_trades; profit_factor = gross profit /
\* |gross loss| when the gross loss is positive, infinity when it is 0 and
\* the gross profit positive, 0 otherwise; with no closed trade the three
\* statistics stay 0.
C25_TradeStats ==
    (call # <<>> /\ call.fn = "calculate_stats" /\ call.pc = "returned") =>
        LET ts == call.trades
            n == Len(ts)
            r == call.ret[1]
            isClosed(k) == ts[k].status = "CLOSED"
            closed == {k \in 1..n : isClosed(k)}
            wins == {k \in closed : ts[k].pnl[1] > 0}
            losses == {k \in closed : ts[k].pnl[1] <= 0}
            profit[k \in 0..n] ==
                IF k = 0 THEN 0
                ELSE profit[k - 1] + (IF k \in wins THEN ts[k].pnl[1] ELSE 0)
            loss[k \in 0..n] ==
                IF k = 0 THEN 0
                ELSE loss[k - 1] + (IF k \in losses THEN -ts[k].pnl[1] ELSE 0)
        IN  /\ r.total_trades = Cardinality(closed)
            /\ wins \cup losses = closed /\ wins \cap losses = {}
            /\ closed # {} =>
                  r.win_rate = Rat(Cardinality(wins), Cardinality(closed))
            /\ closed = {} =>
                  r.win_rate = R(0) /\ r.profit_factor = R(0)
            /\ (closed # {} /\ loss[n] > 0) =>
                  r.profit_factor = Rat(profit[n], loss[n])
            /\ (closed # {} /\ loss[n] = 0 /\ profit[n] > 0) =>
                  r.profit_factor = Inf
            /\ (closed # {} /\ loss[n] = 0 /\ profit[n] = 0) =>
                  r.profit_factor = R(0)

C25_Witness ==
    /\ call # <<>> /\ call.fn = "calculate_stats" /\ call.pc = "returned"
    /\ Len(call.trades) = 3
    /\ call.trades[1].status = "OPEN"
    /\ call.trades[2] = [status |-> "CLOSED", pnl |-> R(0)]
    /\ call.trades[3] = [status |-> "CLOSED", pnl |-> R(3)]
    /\ call.ret[1].total_trades = 2
    /\ call.ret[1].win_rate = Rat(1, 2)
    /\ call.ret[1].profit_factor = Inf

\* C26: at the end of every bar the engine is in exactly one of three
\* states.  Flat: no position, no order, no stop-loss or take-profit.
\* Pending: no position, a buy stop and a limit, no stop-loss or
\* take-profit.  Open: one open position with its stop-loss and take-profit
\* and no order.  The trade list holds closed trades only, so no second
\* position is open.
C26_OneEngineState ==
    LET flat == /\ open_trade = NoTrade
                /\ pending_buy_stop = None /\ pending_limit = None
                /\ stop_loss = None /\ take_profit = None
        pending == /\ open_trade = NoTrade
                   /\ pending_buy_stop # None /\ pending_limit # None
                   /\ stop_loss = None /\ take_profit = None
        open == /\ open_trade # NoTrade
                /\ open_trade.status = "OPEN"
                /\ pending_buy_stop = None /\ pending_limit = None
                /\ stop_loss # None /\ take_profit # None
    IN  /\ flat \/ pending \/ open
        /\ ~(flat /\ pending) /\ ~(flat /\ open) /\ ~(pending /\ open)
        /\ \A k \in 1..Len(trades) : trades[k].status = "CLOSED"

C26_Witness ==
    /\ Len(trades) = 1
    /\ trades[1].exit_date = i - 1
    /\ open_trade = NoTrade
    /\ pending_buy_stop # None /\ pending_limit # None
    /\ stop_loss = None /\ take_profit = None

\* C27: the trades of one run occupy ordered, disjoint bar intervals: a
\* trade's exit bar is strictly after its entry bar, and the next trade's
\* entry bar, the open position's included, is strictly after the previous
\* trade's exit bar.
C27_TradesInSequence ==
    /\ \A k \in 1..Len(trades) :
          /\ trades[k].entry_date < trades[k].exit_date
          /\ k < Len(trades) =>
                trades[k].exit_date < trades[k + 1].entry_date
    /\ (open_trade # NoTrade /\ Len(trades) > 0) =>
          trades[Len(trades)].exit_date < open_trade.entry_date
    /\ open_trade # NoTrade => open_trade.entry_date <= i - 1

C27_Witness ==
    /\ Len(trades) = 2
    /\ trades[1].entry_date < trades[1].exit_date
    /\ trades[2].entry_date = trades[1].exit_date + 1
    /\ trades[2].exit_date = trades[2].entry_date + 1

\* C28: every trade of the list that run returns is CLOSED with exit reason
\* STOP_LOSS, TAKE_PROFIT or TIME_STOP, so total_trades is the length of
\* the list; a position still open after the last bar is not in the list,
\* while the last equity point includes its unrealized P&L.
C28_OnlyClosedTradesReturned ==
    pc = "done" =>
        LET r == result
            n == Len(r.trades)
        IN  /\ r.trades = trades
            /\ \A k \in 1..n :
                  /\ r.trades[k].status = "CLOSED"
                  /\ r.trades[k].exit_reason \in
                         {STOP_LOSS, TAKE_PROFIT, TIME_STOP}
            /\ r.total_trades = n
            /\ open_trade # NoTrade =>
                  /\ open_trade.status = "OPEN"
                  /\ \A k \in 1..n :
                        r.trades[k].entry_date # open_trade.entry_date
                  /\ r.equity_curve[Len(r.equity_curve)].equity =
                         RAdd(current_capital,
                              RMul(Money(Px(seen.close[1])
                                         - open_trade.entry_price),
                                   open_trade.size))

C28_Witness ==
    /\ pc = "done"
    /\ open_trade # NoTrade
    /\ Len(result.trades) = 0
    /\ result.total_trades = 0
    /\ Px(seen.close[1]) # open_trade.entry_price
    /\ result.equity_curve[Len(result.equity_curve)].equity # current_capital

\* C29: realized capital moves only on a bar on which a position exits, and
\* then by that trade's pnl; on every bar that ends with no open position
\* the recorded equity is the initial capital plus the pnl of all trades
\* closed up to and including that bar.
C29_FlatEquityIsRealized ==
    LET n == Len(trades)
        realized[k \in 0..n] ==
            IF k = 0 THEN R(initial_capital)
            ELSE RAdd(realized[k - 1], trades[k].pnl)
        closedBy(bar) == Cardinality({k \in 1..n : trades[k].exit_date <= bar})
        held(bar) ==
            \/ \E k \in 1..n : /\ trades[k].entry_date <= bar
                               /\ bar < trades[k].exit_date
            \/ open_trade # NoTrade /\ open_trade.entry_date <= bar
    IN  /\ current_capital = realized[n]
        /\ \A b \in 1..Len(equity_curve) :
              ~held(b - 1) =>
                  equity_curve[b].equity = realized[closedBy(b - 1)]

C29_Witness ==
    /\ Len(trades) = 1
    /\ open_trade = NoTrade
    /\ pc = "loop"
    /\ trades[1].exit_date = i - 1
    /\ trades[1].pnl # R(0)
    /\ equity_curve[Len(equity_curve)].equity =
          RAdd(R(initial_capital), trades[1].pnl)
    /\ equity_curve[trades[1].entry_date + 1].equity # R(initial_capital)

\* C30: with the roll step equal to the test length and min_periods 0, the
\* yielded test ranges tile the out-of-sample part of the series: every bar
\* dated on or after the first train-end boundary, the last bar included,
\* is in exactly one yielded test range.
C30_TestRangesTile ==
    (/\ splitter # <<>>
     /\ splitter.pc = "done"
     /\ splitter.index # {}
     /\ splitter.cfg.roll_months = splitter.cfg.test_months
     /\ splitter.cfg.min_periods = 0) =>
        LET first == AddMonths(SetMin(splitter.index),
                               splitter.cfg.train_months)
            ws == splitter.windows
        IN  \A t \in splitter.index :
                t >= first =>
                    Cardinality({k \in 1..Len(ws) :
                                    ws[k].yielded /\ t \in ws[k].test}) = 1

\* C22: every function of the indicator library raises a validation error
\* when a series is empty, when its series differ in length, or when a
\* period is smaller than 1.
C22_InputsValidated ==
    (/\ call # <<>>
     /\ \E f \in Indicators : call.fn = f[1]
     /\ call.pc # "call"
     /\ \/ \E k \in DOMAIN call.series : call.series[k] = 0
        \/ \E j, k \in DOMAIN call.series : call.series[j] # call.series[k]
        \/ \E k \in DOMAIN call.periods : call.periods[k] < 1) =>
        call.pc = "raised"

\* C21: on every bar past warm-up rsi is 100 whenever the smoothed average
\* loss is zero and 0 whenever the smoothed average gain is zero, and it
\* lies in [0, 100].
C21_RsiSaturates ==
    (call # <<>> /\ call.fn = "rsi" /\ call.pc = "returned") =>
        \A t \in (call.period + 1)..Len(call.close) :
            /\ ~call.ret[t].nan
            /\ call.avg_loss[t].v = R(0) => call.ret[t].v = R(100)
            /\ call.avg_gain[t].v = R(0) => call.ret[t].v = R(0)
            /\ RLe(R(0), call.ret[t].v) /\ RLe(call.ret[t].v, R(100))

\* C21, amended: on every bar past warm-up rsi is 0 whenever the smoothed
\* average gain is zero, also when the average loss is zero too (prices
\* that never moved), 100 whenever the average loss is zero and the average
\* gain is positive, and it lies in [0, 100]; the bars of the warm-up are
\* not-a-number.
C21_RsiSaturatesGainFirst ==
    (call # <<>> /\ call.fn = "rsi" /\ call.pc = "returned") =>
        /\ \A t \in (call.period + 1)..Len(call.close) :
              /\ ~call.ret[t].nan
              /\ call.avg_gain[t].v = R(0) => call.ret[t].v = R(0)
              /\ (call.avg_loss[t].v = R(0) /\ RLt(R(0), call.avg_gain[t].v))
                    => call.ret[t].v = R(100)
              /\ RLe(R(0), call.ret[t].v) /\ RLe(call.ret[t].v, R(100))
        /\ \A t \in 1..Min(call.period, Len(call.close)) : call.ret[t].nan

C21_Witness ==
    /\ call # <<>> /\ call.fn = "rsi" /\ call.pc = "returned"
    /\ call.period = 2
    /\ Len(call.close) = 4
    /\ call.avg_gain[4].v = R(0) /\ call.avg_loss[4].v = R(0)
    /\ call.ret[4] = Float(R(0))

====
